---- MODULE Spec2Model ----
(***************************************************************************)
(* Model of the semtools workspace store (src/workspace/store.rs), the     *)
(* workspace search pipeline (src/search/mod.rs) and the prune command     *)
(* (src/cmds/workspace.rs).                                                *)
(*                                                                         *)
(* The vector engine (EdgeShard) is an external crate.  A shard is         *)
(* modelled as a set of points with pairwise distinct ids; a scroll with   *)
(* `limit: None` is taken to return every matching record, and a nearest   *)
(* query returns the `limit` best scoring matches above the threshold.     *)
(*                                                                         *)
(* Vectors are unit vectors at multiples of 60 degrees, written as the     *)
(* multiple (0..3).  Scores and distances are kept times two so that they  *)
(* stay integers: cos(0, 60, 120, 180 degrees) * 2 = 2, 1, -1, -2.         *)
(***************************************************************************)
EXTENDS Integers, Sequences, FiniteSets, TLC

VARIABLES files, documents_shard, line_embeddings_shard, pc, run, last,
          orphans, disk, env, config_json

vars == <<files, documents_shard, line_embeddings_shard, pc, run, last,
          orphans, disk, env, config_json>>

-----------------------------------------------------------------------------
(* Bounds of the model *)

\* longest file, in lines
MaxLines == 2

\* entries per engine write; stands for the 1000 of `chunks(1000)`
ChunkSize == 1

\* largest top_k a caller passes
MaxTopK == 2

\* width of usize in bits; stands for the 64 of the build's targets
UsizeBits == 3

\* the longest file content taken byte by byte
MaxChars == 3

\* the largest config.max_retries below usize::MAX
MaxRetries == 2

\* the most files of a parse call that need a remote job
MaxParseFiles == 3

\* the longest path taken character by character
MaxPathChars == 2

-----------------------------------------------------------------------------
(* Program constants *)

CURRENT_EMBEDDING_VERSION == 2

\* low 16 bits of FNV_PRIME = 0x100000001b3 = 2^40 + 0x1b3
FNV_PRIME_LOW == 435

\* FNV_OFFSET_BASIS = 0xcbf29ce484222325 as four 16-bit limbs, lowest first
FNV_OFFSET_BASIS == <<8997, 33826, 40164, 52210>>

Limb == 65536

-----------------------------------------------------------------------------
(* Inputs *)

Paths == {"a", "b"}

\* path.as_bytes()
as_bytes(p) == IF p = "a" THEN <<97>> ELSE <<98>>

\* str::to_lowercase
to_lowercase(w) == IF w = "Dog" THEN "dog" ELSE w

\* the embedder: a word's unit vector, as a multiple of 60 degrees
encode(w) == CASE w = "cat" -> 0
               [] w = "Dog" -> 1
               [] w = "dog" -> 2
               [] OTHER -> 3

\* query embeddings
Queries == {0, 2}

\* modification times, seconds since the epoch
Mtimes == {100, 200}

\* versions a stored DocMeta can carry: an older build wrote 1
Versions == {1, CURRENT_EMBEDDING_VERSION}

\* max_distance values times two (0.5 and 1.5), or None
NoDistance == 99
MaxDistances == {NoDistance, 1, 3}

NoFile == [exists |-> FALSE]

\* the text the files are cut from: "cat", "Dog", "cat", ...
text_line(i) == IF i % 2 = 1 THEN "cat" ELSE "Dog"

\* a file holds the first n lines of the text
Contents == {[i \in 1..n |-> text_line(i)] : n \in 0..MaxLines}

\* metadata.len(): every line is three bytes and a newline
size_of(content) == 4 * Len(content)

\* the content of a file whose four bytes are not UTF-8 text
InvalidUtf8 == <<"0xFF">>

\* no error
NoError == <<>>

\* std::fs::read_to_string: the content, or the io::Error's message, which
\* carries the kind of the failure and no path
read_to_string(fs, p) ==
    IF ~fs[p].exists
    THEN [ok |-> FALSE, content |-> <<>>,
          error |-> <<"No such file or directory", "(os error 2)">>]
    ELSE IF fs[p].content = InvalidUtf8
    THEN [ok |-> FALSE, content |-> <<>>,
          error |-> <<"stream did not contain valid UTF-8">>]
    ELSE [ok |-> TRUE, content |-> fs[p].content, error |-> NoError]

\* the error the `?` operator returns from a loop: the first one met
RECURSIVE first_error(_)
first_error(errors) ==
    IF errors = <<>> THEN NoError
    ELSE IF Head(errors) # NoError THEN Head(errors)
    ELSE first_error(Tail(errors))

\* the lists of files a caller passes
FileLists == {<<"a">>, <<"b">>, <<"a", "b">>}

Range(s) == {s[i] : i \in 1..Len(s)}

\* usize::MAX
usize_MAX == 2 ^ UsizeBits - 1

\* `+` and `*` on usize in a build without overflow checks: they wrap
usize_add(x, y) == (x + y) % (2 ^ UsizeBits)
usize_mul(x, y) == (x * y) % (2 ^ UsizeBits)

\* usize::saturating_sub
saturating_sub(x, y) == IF x < y THEN 0 ELSE x - y

Min(x, y) == IF x < y THEN x ELSE y

-----------------------------------------------------------------------------
(* fnv1a_hash on 64 bits, kept as four 16-bit limbs *)

RECURSIVE xor_bits(_, _, _)
xor_bits(x, y, n) ==
    IF n = 0 THEN 0
    ELSE (IF (x % 2) = (y % 2) THEN 0 ELSE 1) + 2 * xor_bits(x \div 2, y \div 2, n - 1)

\* hash ^= byte as u64
xor_byte(h, byte) == <<xor_bits(h[1], byte, 16), h[2], h[3], h[4]>>

\* hash.wrapping_mul(FNV_PRIME): h * 0x1b3 + (h << 40), modulo 2^64
wrapping_mul_prime(h) ==
    LET t1 == h[1] * FNV_PRIME_LOW
        t2 == h[2] * FNV_PRIME_LOW + (t1 \div Limb)
        t3 == h[3] * FNV_PRIME_LOW + (t2 \div Limb)
        t4 == h[4] * FNV_PRIME_LOW + (t3 \div Limb)
        s3 == (h[1] * 256) % Limb
        s4 == ((h[2] * 256) % Limb) + (h[1] \div 256)
        u3 == (t3 % Limb) + s3
        u4 == (t4 % Limb) + s4 + (u3 \div Limb)
    IN  <<t1 % Limb, t2 % Limb, u3 % Limb, u4 % Limb>>

RECURSIVE fnv1a_from(_, _, _)
fnv1a_from(hash, bytes, i) ==
    IF i > Len(bytes) THEN hash
    ELSE fnv1a_from(wrapping_mul_prime(xor_byte(hash, bytes[i])), bytes, i + 1)

fnv1a_hash(bytes) == fnv1a_from(FNV_OFFSET_BASIS, bytes, 1)

\* i32::to_le_bytes of a line number that is not negative
to_le_bytes(n) ==
    <<n % 256, (n \div 256) % 256, (n \div 65536) % 256, (n \div 16777216) % 256>>

\* the bytes LineEmbedding::id hashes, with one byte of the line number
LineEmbedding_id_bytes_low_byte(path_bytes, line_number) ==
    path_bytes \o <<line_number % 256>>

\* the bytes LineEmbedding::id hashes: the path's, then the line number's four
LineEmbedding_id_bytes(path_bytes, line_number) ==
    path_bytes \o to_le_bytes(line_number)

\* DocMeta::id
doc_ids == [p \in Paths |-> fnv1a_hash(as_bytes(p))]
DocMeta_id(meta) == doc_ids[meta.path]

\* LineEmbedding::id, computed once per (path, line_number)
line_ids == [p \in Paths |->
               [n \in 0..MaxLines |->
                    fnv1a_hash(LineEmbedding_id_bytes(as_bytes(p), n))]]

\* LineEmbedding::id hashing the path alone
LineEmbedding_id_path_only(le) == fnv1a_hash(as_bytes(le.path))

LineEmbedding_id(le) == line_ids[le.path][le.line_number]

-----------------------------------------------------------------------------
(* The engine: a shard is a set of points with pairwise distinct ids *)

\* PointOperations::UpsertPoints: each point replaces the point of the same id
RECURSIVE UpsertPoints(_, _, _)
UpsertPoints(shard, points, i) ==
    IF i > Len(points) THEN shard
    ELSE UpsertPoints({pt \in shard : pt.id # points[i].id} \cup {points[i]},
                      points, i + 1)

\* PointOperations::DeletePoints
DeletePoints(shard, ids) == {pt \in shard : pt.id \notin ids}

\* the records of a scroll whose filter is `path` IN paths
scroll_paths(shard, paths) == {pt \in shard : pt.payload.path \in paths}

\* a split that keeps the whole slice in one piece
chunks_whole(s, n) == IF s = <<>> THEN <<>> ELSE <<s>>

\* slice::chunks(n)
chunks(s, n) ==
    [k \in 1..((Len(s) + n - 1) \div n) |->
        SubSeq(s, (k - 1) * n + 1, Min(k * n, Len(s)))]

\* cosine similarity of two unit vectors, times two
cosine_score(q, v) ==
    LET d == IF q < v THEN v - q ELSE q - v
    IN  CASE d = 0 -> 2 [] d = 1 -> 1 [] d = 2 -> -1 [] OTHER -> -2

\* the engine's order of two scored points: better score first, then by payload
scored_before(x, y) ==
    \/ x.score > y.score
    \/ /\ x.score = y.score
       /\ \/ x.payload.path = "a" /\ y.payload.path = "b"
          \/ /\ x.payload.path = y.payload.path
             /\ x.payload.line_number < y.payload.line_number

RECURSIVE best_first(_, _)
best_first(scored, limit) ==
    IF limit = 0 \/ scored = {} THEN <<>>
    ELSE LET top == CHOOSE x \in scored :
                        \A y \in scored \ {x} : scored_before(x, y)
         IN  <<top>> \o best_first(scored \ {top}, limit - 1)

\* query_nearest with the `path` filter dropped
query_nearest_unfiltered(shard, q, paths, score_threshold, limit) ==
    LET scored == {[payload |-> pt.payload, score |-> cosine_score(q, pt.vector)] :
                      pt \in shard}
        kept == {x \in scored :
                    score_threshold = NoDistance \/ x.score > score_threshold}
    IN  best_first(kept, limit)

\* EdgeShard::query with a Nearest query, a `path` IN paths filter, a score
\* threshold (NoDistance: none) and a limit
query_nearest(shard, q, paths, score_threshold, limit) ==
    LET scored == {[payload |-> pt.payload, score |-> cosine_score(q, pt.vector)] :
                      pt \in scroll_paths(shard, paths)}
        kept == {x \in scored :
                    score_threshold = NoDistance \/ x.score > score_threshold}
    IN  best_first(kept, limit)

\* Store::flush_documents: EdgeShard::flush leaves on disk what the shard holds
flush_documents(shard, on_disk) == shard

\* flush_line_embeddings that returns before the data is written
flush_line_embeddings_pending(shard, on_disk) == on_disk

\* Store::flush_line_embeddings
flush_line_embeddings(shard, on_disk) == shard

\* EdgeShard::load in Store::open: the shard holds what the directory holds
EdgeShard_load(on_disk) == on_disk

\* make_point for a DocMeta (the placeholder vector [1.0] is left out)
doc_point(meta) == [id |-> DocMeta_id(meta), payload |-> meta]

\* make_point for a LineEmbedding: the payload skips the embedding
line_point(le) ==
    [id |-> LineEmbedding_id(le), vector |-> le.embedding,
     payload |-> [path |-> le.path, line_number |-> le.line_number]]

RECURSIVE Flatten(_, _)
Flatten(ss, i) == IF i > Len(ss) THEN <<>> ELSE ss[i] \o Flatten(ss, i + 1)

-----------------------------------------------------------------------------
(* Store *)

\* get_existing_docs with the scroll also asking for the current version
get_existing_docs_current_only(docs, paths) ==
    LET cs == chunks(paths, ChunkSize)
        records == UNION {{r \in scroll_paths(docs, Range(cs[k])) :
                              r.payload.version = CURRENT_EMBEDDING_VERSION} :
                          k \in 1..Len(cs)}
    IN  [p \in {pt.payload.path : pt \in records} |->
            (CHOOSE pt \in records : pt.payload.path = p).payload]

\* Store::get_existing_docs: no condition on the version
get_existing_docs(docs, paths) ==
    LET cs == chunks(paths, ChunkSize)
        records == UNION {scroll_paths(docs, Range(cs[k])) : k \in 1..Len(cs)}
    IN  [p \in {pt.payload.path : pt \in records} |->
            (CHOOSE pt \in records : pt.payload.path = p).payload]

\* Store::delete_document_metadata: the scroll asks for `path` IN chunk and
\* `_version` = CURRENT_EMBEDDING_VERSION
delete_document_metadata(docs, paths) ==
    IF paths = <<>> THEN docs
    ELSE LET cs == chunks(paths, ChunkSize)
             point_ids ==
                 UNION {{pt.id : pt \in
                            {r \in scroll_paths(docs, Range(cs[k])) :
                                r.payload.version = CURRENT_EMBEDDING_VERSION}} :
                        k \in 1..Len(cs)}
         IN  DeletePoints(docs, point_ids)

\* delete_line_embeddings that stops after the first chunk of paths
delete_line_embeddings_first_chunk(lines, paths) ==
    IF paths = <<>> THEN lines
    ELSE DeletePoints(lines,
             {pt.id : pt \in scroll_paths(lines, Range(chunks(paths, ChunkSize)[1]))})

\* Store::delete_line_embeddings
delete_line_embeddings(lines, paths) ==
    IF paths = <<>> THEN lines
    ELSE LET cs == chunks(paths, ChunkSize)
             point_ids ==
                 UNION {{pt.id : pt \in scroll_paths(lines, Range(cs[k]))} :
                        k \in 1..Len(cs)}
         IN  DeletePoints(lines, point_ids)

\* one turn of the loop of Store::upsert_document_metadata
upsert_document_metadata_chunk(docs, chunk) ==
    UpsertPoints(docs, [i \in 1..Len(chunk) |-> doc_point(chunk[i])], 1)

\* one turn of the loop of Store::upsert_line_embeddings
upsert_line_embeddings_chunk(lines, chunk) ==
    UpsertPoints(lines, [i \in 1..Len(chunk) |-> line_point(chunk[i])], 1)

\* Store::get_all_document_paths, as a set: the scroll's order is the engine's
get_all_document_paths(docs) == {pt.payload.path : pt \in docs}

\* Store::count_documents
count_documents(docs) == Cardinality(docs)

\* insert_sorted that puts an element before its equals
RECURSIVE insert_sorted_before_equal(_, _)
insert_sorted_before_equal(sorted, x) ==
    IF sorted = <<>> THEN <<x>>
    ELSE IF sorted[Len(sorted)].distance < x.distance THEN Append(sorted, x)
    ELSE Append(insert_sorted_before_equal(SubSeq(sorted, 1, Len(sorted) - 1), x),
                sorted[Len(sorted)])

\* Vec::sort_by on the distance: stable
RECURSIVE insert_sorted(_, _)
insert_sorted(sorted, x) ==
    IF sorted = <<>> THEN <<x>>
    ELSE IF sorted[Len(sorted)].distance <= x.distance THEN Append(sorted, x)
    ELSE Append(insert_sorted(SubSeq(sorted, 1, Len(sorted) - 1), x),
                sorted[Len(sorted)])

\* sort_by_distance that leaves the results in the order they were pushed
sort_by_distance_as_pushed(s, i) == SubSeq(s, 1, i)

RECURSIVE sort_by_distance(_, _)
sort_by_distance(s, i) ==
    IF i = 0 THEN <<>> ELSE insert_sorted(sort_by_distance(s, i - 1), s[i])

\* Store::search_line_embeddings
search_line_embeddings(lines, query_vec, subset_paths, top_k, max_distance) ==
    IF subset_paths = <<>> \/ top_k = 0 THEN <<>>
    ELSE LET cs == chunks(subset_paths, ChunkSize)
             score_threshold ==
                 IF max_distance = NoDistance THEN NoDistance ELSE 2 - max_distance
             ranked(x) == [path |-> x.payload.path,
                           line_number |-> x.payload.line_number,
                           distance |-> 2 - x.score]
             per_chunk ==
                 [k \in 1..Len(cs) |->
                     LET results == query_nearest(lines, query_vec, Range(cs[k]),
                                                  score_threshold,
                                                  usize_mul(top_k, 2))
                     IN  [i \in 1..Len(results) |-> ranked(results[i])]]
             all_results == Flatten(per_chunk, 1)
             sorted == sort_by_distance(all_results, Len(all_results))
         IN  SubSeq(sorted, 1, Min(top_k, Len(sorted)))

\* the DocMeta analyze_document_states builds from std::fs::metadata
current_meta(fs, p) ==
    [path |-> p, size_bytes |-> size_of(fs[p].content), mtime |-> fs[p].mtime,
     version |-> CURRENT_EMBEDDING_VERSION]

\* document_state without the comparison of the version
document_state_no_version(existing_docs, fs, p) ==
    LET info == [filename |-> p, content |-> fs[p].content,
                 meta |-> current_meta(fs, p)]
    IN  IF p \in DOMAIN existing_docs
        THEN IF \/ existing_docs[p].size_bytes # info.meta.size_bytes
                \/ existing_docs[p].mtime # info.meta.mtime
             THEN [kind |-> "Changed", path |-> p, info |-> info]
             ELSE [kind |-> "Unchanged", path |-> p]
        ELSE [kind |-> "New", path |-> p, info |-> info]

\* the state analyze_document_states pushes for a path that exists
document_state(existing_docs, fs, p) ==
    LET info == [filename |-> p, content |-> fs[p].content,
                 meta |-> current_meta(fs, p)]
    IN  IF p \in DOMAIN existing_docs
        THEN IF \/ existing_docs[p].size_bytes # info.meta.size_bytes
                \/ existing_docs[p].mtime # info.meta.mtime
                \/ existing_docs[p].version # CURRENT_EMBEDDING_VERSION
             THEN [kind |-> "Changed", path |-> p, info |-> info]
             ELSE [kind |-> "Unchanged", path |-> p]
        ELSE [kind |-> "New", path |-> p, info |-> info]

\* Store::analyze_document_states: a path that is not on disk is skipped
analyze_document_states(docs, fs, file_paths) ==
    LET existing_docs == get_existing_docs(docs, file_paths)
        present == SelectSeq(file_paths, LAMBDA p : fs[p].exists)
    IN  [i \in 1..Len(present) |-> document_state(existing_docs, fs, present[i])]

\* analyze_document_states reading every listed path, on disk or not
analyze_read_error_reads_all(docs, fs, file_paths) ==
    first_error([i \in 1..Len(file_paths) |-> read_to_string(fs, file_paths[i]).error])

\* analyze_document_states going on after a failed read
analyze_read_error_ignored(docs, fs, file_paths) == NoError

\* the error analyze_document_states returns instead: the first failed
\* read_to_string; only a Changed or New file is read
analyze_read_error(docs, fs, file_paths) ==
    LET existing_docs == get_existing_docs(docs, file_paths)
        present == SelectSeq(file_paths, LAMBDA p : fs[p].exists)
    IN  first_error([i \in 1..Len(present) |->
            IF document_state(existing_docs, fs, present[i]).kind = "Unchanged"
            THEN NoError
            ELSE read_to_string(fs, present[i]).error])

-----------------------------------------------------------------------------
(* search_with_workspace *)

NoDocument == [filename |-> "", lines |-> <<>>, embeddings |-> <<>>]

\* create_document_from_content; the content is the file's lines
create_document_from_content(filename, content, ignore_case) ==
    IF Len(content) = 0 THEN NoDocument
    ELSE [filename |-> filename, lines |-> content,
          embeddings |-> [i \in 1..Len(content) |->
                            encode(IF ignore_case THEN to_lowercase(content[i])
                                   ELSE content[i])]]

\* the LineEmbedding entries search_with_workspace derives from one state
lines_of_state(state, ignore_case) ==
    IF state.kind = "Unchanged" THEN <<>>
    ELSE LET doc == create_document_from_content(state.info.filename,
                                                 state.info.content, ignore_case)
         IN  [i \in 1..Len(doc.embeddings) |->
                [path |-> state.info.filename, line_number |-> i - 1,
                 embedding |-> doc.embeddings[i]]]

\* metas_of_state recording the version before the current one
metas_of_state_previous_version(state, ignore_case) ==
    IF state.kind = "Unchanged" THEN <<>>
    ELSE IF create_document_from_content(state.info.filename, state.info.content,
                                         ignore_case) = NoDocument
         THEN <<>>
         ELSE <<[state.info.meta EXCEPT !.version = CURRENT_EMBEDDING_VERSION - 1]>>

\* the DocMeta search_with_workspace records for one state
metas_of_state(state, ignore_case) ==
    IF state.kind = "Unchanged" THEN <<>>
    ELSE IF create_document_from_content(state.info.filename, state.info.content,
                                         ignore_case) = NoDocument
         THEN <<>>
         ELSE <<state.info.meta>>

\* line_embeddings_to_upsert after the loop over doc_states
line_embeddings_to_upsert(doc_states, ignore_case) ==
    Flatten([i \in 1..Len(doc_states) |-> lines_of_state(doc_states[i], ignore_case)], 1)

\* docs_to_upsert that tracks no metadata
docs_to_upsert_none(doc_states, ignore_case) == <<>>

\* docs_to_upsert after the loop over doc_states
docs_to_upsert(doc_states, ignore_case) ==
    Flatten([i \in 1..Len(doc_states) |-> metas_of_state(doc_states[i], ignore_case)], 1)

-----------------------------------------------------------------------------
(* The stateless search: search_documents, search_files, search_cmd *)

\* the bytes of a file content: a letter in either case, or a line feed
Chars == {"x", "X", "\n"}

\* the contents of at most n bytes
RECURSIVE StrsUpTo(_)
StrsUpTo(n) ==
    IF n = 0 THEN {<<>>}
    ELSE LET shorter == StrsUpTo(n - 1)
         IN  shorter \cup {Append(c, ch) : c \in shorter, ch \in Chars}

\* str::lines: the text between line feeds; the line after a final line feed
\* does not exist
RECURSIVE str_lines(_)
str_lines(c) ==
    IF c = <<>> THEN <<>>
    ELSE LET nl == {i \in 1..Len(c) : c[i] = "\n"}
         IN  IF nl = {} THEN <<c>>
             ELSE LET i == CHOOSE j \in nl : \A k \in nl : j <= k
                  IN  <<SubSeq(c, 1, i - 1)>> \o str_lines(SubSeq(c, i + 1, Len(c)))

\* str::to_lowercase on a line of Chars
to_lowercase_chars(line) ==
    [i \in 1..Len(line) |-> IF line[i] = "X" THEN "x" ELSE line[i]]

\* the embedder on a line of Chars: the empty line, a line in lower case and
\* a line with a capital have three different vectors
encode_chars(line) ==
    IF line = <<>> THEN 3
    ELSE IF \E i \in 1..Len(line) : line[i] = "X" THEN 1
    ELSE 0

\* create_document_from_content on the bytes of a content
create_document_from_str(filename, c, ignore_case) ==
    LET lines == str_lines(c)
    IN  IF Len(lines) = 0 THEN NoDocument
        ELSE [filename |-> filename, lines |-> lines,
              embeddings |-> [i \in 1..Len(lines) |->
                  encode_chars(IF ignore_case THEN to_lowercase_chars(lines[i])
                               ELSE lines[i])]]

\* the distance_threshold of an unset max_distance: 100.0, times two
DEFAULT_THRESHOLD == 200

\* the SearchResult search_documents pushes for line idx (from 0) of doc
search_result(doc, idx, distance, n_lines) ==
    LET bottom_range == saturating_sub(idx, n_lines)
        top_range == Min(Len(doc.lines), usize_add(usize_add(idx, n_lines), 1))
    IN  [filename |-> doc.filename,
         lines |-> SubSeq(doc.lines, bottom_range + 1, top_range),
         distance |-> distance, start |-> bottom_range, end |-> top_range,
         match_line |-> idx]

\* the results search_documents pushes for one document, in line order
results_of_document(doc, query_embedding, config) ==
    LET threshold == IF config.max_distance = NoDistance THEN DEFAULT_THRESHOLD
                     ELSE config.max_distance
        all == [i \in 1..Len(doc.embeddings) |->
                   search_result(doc, i - 1,
                                 2 - cosine_score(query_embedding, doc.embeddings[i]),
                                 config.n_lines)]
    IN  SelectSeq(all, LAMBDA r : r.distance < threshold)

\* search_documents
search_documents(documents, query_embedding, config) ==
    LET pushed == Flatten([d \in 1..Len(documents) |->
                              results_of_document(documents[d], query_embedding,
                                                  config)], 1)
        sorted == sort_by_distance(pushed, Len(pushed))
    IN  IF config.max_distance # NoDistance THEN sorted
        ELSE SubSeq(sorted, 1, Min(config.top_k, Len(sorted)))

\* the documents search_files builds from the files it could read: a file
\* without lines gives none
documents_of(fs, file_list, ignore_case) ==
    LET docs == [i \in 1..Len(file_list) |->
                    IF fs[file_list[i]].exists
                    THEN create_document_from_content(file_list[i],
                             fs[file_list[i]].content, ignore_case)
                    ELSE NoDocument]
    IN  SelectSeq(docs, LAMBDA d : d # NoDocument)

\* search_files; the first read_to_string that fails ends the call
search_files(fs, file_list, query, config) ==
    LET error == first_error([i \in 1..Len(file_list) |->
                                 read_to_string(fs, file_list[i]).error])
    IN  IF error # NoError
        THEN [ok |-> FALSE, results |-> <<>>, error |-> error]
        ELSE [ok |-> TRUE,
              results |-> search_documents(
                              documents_of(fs, file_list, config.ignore_case),
                              encode(query), config),
              error |-> NoError]

\* search_cmd passing the query as it was typed
search_cmd_query_as_typed(fs, file_list, query, config) ==
    search_files(fs, file_list, query, config)

\* search_cmd without an active workspace: it lowercases the query itself
search_cmd(fs, file_list, query, config) ==
    search_files(fs, file_list,
                 IF config.ignore_case THEN to_lowercase(query) ELSE query, config)

-----------------------------------------------------------------------------
(* Workspace: the active workspace and its config.json *)

\* workspace names
Names == {"ws", "default"}

\* Workspace::active: the value of SEMTOOLS_WORKSPACE ("" when it is unset)
\* taken whatever it is
active_unchecked(e) == [ok |-> TRUE, value |-> e]

\* Workspace::active
active(e) ==
    IF e = "" THEN [ok |-> FALSE, value |-> ""] ELSE [ok |-> TRUE, value |-> e]

\* Workspace::root_path: home/.semtools/workspaces/name
root_path(name) == <<"~", ".semtools", "workspaces", name>>

\* Workspace::active_path
active_path(e) ==
    IF e = "" THEN [ok |-> FALSE, value |-> <<>>]
    ELSE [ok |-> TRUE, value |-> root_path(e)]

\* WorkspaceConfig::default
WorkspaceConfig_default ==
    [name |-> "default", root_dir |-> <<>>, doc_top_k |-> 250,
     in_batch_size |-> 5000, oversample_factor |-> 3]

\* the WorkspaceConfig values a caller saves
WorkspaceConfigs ==
    [name : Names, root_dir : {<<>>, <<"tmp", "test">>}, doc_top_k : {250, 123},
     in_batch_size : {5000}, oversample_factor : {3, 7}]

\* to_string_pretty that writes the name and the root only
to_string_pretty_without_tunables(config) ==
    <<<<"name", config.name>>, <<"root_dir", config.root_dir>>>>

\* serde_json::to_string_pretty of a WorkspaceConfig: the members in the
\* order of the struct
to_string_pretty(config) ==
    <<<<"name", config.name>>, <<"root_dir", config.root_dir>>,
      <<"doc_top_k", config.doc_top_k>>,
      <<"in_batch_size", config.in_batch_size>>,
      <<"oversample_factor", config.oversample_factor>>>>

\* a config.json written by a release that had no oversample_factor
without_oversample_factor ==
    <<<<"name", "ws">>, <<"root_dir", <<"tmp", "test">>>>, <<"doc_top_k", 250>>,
      <<"in_batch_size", 5000>>>>

\* a config.json cut short
truncated_json == <<<<"name", "ws">>, <<"root_dir">>>>

\* serde_json::from_str::<WorkspaceConfig>: every member is required
from_str(text) ==
    LET keys == <<"name", "root_dir", "doc_top_k", "in_batch_size",
                  "oversample_factor">>
        member(k) == CHOOSE i \in 1..Len(text) : text[i][1] = k
    IN  IF /\ \A i \in 1..Len(text) : Len(text[i]) = 2 /\ text[i][1] \in Range(keys)
           /\ \A i \in 1..Len(keys) : \E j \in 1..Len(text) : text[j][1] = keys[i]
        THEN [ok |-> TRUE,
              value |-> [name |-> text[member("name")][2],
                         root_dir |-> text[member("root_dir")][2],
                         doc_top_k |-> text[member("doc_top_k")][2],
                         in_batch_size |-> text[member("in_batch_size")][2],
                         oversample_factor |-> text[member("oversample_factor")][2]]]
        ELSE [ok |-> FALSE, value |-> WorkspaceConfig_default]

\* Workspace::open that takes the parsed config as it is
Workspace_open_as_parsed(e, config_files) ==
    LET text == read_to_string(config_files, active(e).value)
        cfg == IF text.ok THEN from_str(text.content)
               ELSE [ok |-> FALSE, value |-> WorkspaceConfig_default]
    IN  IF ~active(e).ok THEN [ok |-> FALSE, config |-> WorkspaceConfig_default]
        ELSE [ok |-> TRUE, config |-> cfg.value]

\* Workspace::open
Workspace_open(e, config_files) ==
    LET active_workspace == active(e)
        text == read_to_string(config_files, active_workspace.value)
        cfg == IF text.ok THEN from_str(text.content)
               ELSE [ok |-> FALSE, value |-> WorkspaceConfig_default]
        config == IF cfg.ok THEN cfg.value ELSE WorkspaceConfig_default
        with_root == IF config.root_dir = <<>>
                     THEN [config EXCEPT !.root_dir = root_path(active_workspace.value)]
                     ELSE config
        with_name == IF with_root.name = "" \/ with_root.name = "default"
                     THEN [with_root EXCEPT !.name = active_workspace.value]
                     ELSE with_root
    IN  IF ~active_workspace.ok
        THEN [ok |-> FALSE, config |-> WorkspaceConfig_default]
        ELSE [ok |-> TRUE, config |-> with_name]

\* the file Workspace::save writes at config_path_for(config.name)
saved_file(config) ==
    [exists |-> TRUE, content |-> to_string_pretty(config), mtime |-> 100]

-----------------------------------------------------------------------------
(* State *)

NoRun == [op |-> "none"]

\* `last` remembers the call that returned last, when a following call is
\* stated in terms of it: a completed search ("search", its list), one
\* modification of one file right after it ("edit"), a stop ("stop", where),
\* an upsert of the Store that replaced a stored entry by a different one
\* ("replaced", the shard), a panic ("panic", where)
NoLast == [op |-> "other", paths |-> <<>>, at |-> "", pending |-> {}]

\* the (path, line_number) pairs of the entries of a line shard
line_keys(lines) == {<<pt.payload.path, pt.payload.line_number>> : pt \in lines}

\* the line numbers stored for a path
stored_line_numbers(lines, p) ==
    {pt.payload.line_number : pt \in scroll_paths(lines, {p})}

Init ==
    /\ files = [p \in Paths |-> NoFile]
    /\ documents_shard = {}
    /\ line_embeddings_shard = {}
    /\ pc = "idle"
    /\ run = NoRun
    /\ last = NoLast
    /\ orphans = {}
    /\ disk = [documents |-> {}, line_embeddings |-> {}]
    /\ env = ""
    /\ config_json = [name \in Names |-> NoFile]

-----------------------------------------------------------------------------
(* The filesystem, changed by the user between two calls *)

\* what `last` becomes when path p is written or removed
last_after_edit(p, modified) ==
    IF last.op \in {"search", "edit"} /\ p \notin Range(last.paths) THEN last
    ELSE IF last.op = "search" /\ modified
    THEN [op |-> "edit", paths |-> last.paths, at |-> "", pending |-> {p}]
    ELSE NoLast

WriteFile(p, c, m) ==
    /\ pc = "idle"
    /\ files[p] # [exists |-> TRUE, content |-> c, mtime |-> m]
    /\ files' = [files EXCEPT ![p] = [exists |-> TRUE, content |-> c, mtime |-> m]]
    /\ last' = last_after_edit(p, /\ files[p].exists
                                  /\ \/ size_of(files[p].content) # size_of(c)
                                     \/ files[p].mtime # m)
    /\ UNCHANGED <<documents_shard, line_embeddings_shard, pc, run,
                   orphans, disk, env, config_json>>

RemoveFile(p) ==
    /\ pc = "idle"
    /\ files[p].exists
    /\ files' = [files EXCEPT ![p] = NoFile]
    /\ last' = last_after_edit(p, FALSE)
    /\ UNCHANGED <<documents_shard, line_embeddings_shard, pc, run,
                   orphans, disk, env, config_json>>

-----------------------------------------------------------------------------
(* search_with_workspace, one engine write per step *)

SearchConfigs ==
    {[query |-> 0, top_k |-> 1, max_distance |-> NoDistance],
     [query |-> 2, top_k |-> MaxTopK, max_distance |-> NoDistance],
     [query |-> 0, top_k |-> MaxTopK, max_distance |-> 3]}

\* next_write with the metadata written before the lines
next_write_metas_first(lines, lines_done, metas, metas_done) ==
    IF metas_done < Len(chunks(metas, ChunkSize)) THEN "ws_metas"
    ELSE IF lines_done < Len(chunks(lines, ChunkSize)) THEN "ws_lines"
    ELSE "ws_search"

\* the statement search_with_workspace runs next: the line chunks, then the
\* metadata chunks, then the search
next_write(lines, lines_done, metas, metas_done) ==
    IF lines_done < Len(chunks(lines, ChunkSize)) THEN "ws_lines"
    ELSE IF metas_done < Len(chunks(metas, ChunkSize)) THEN "ws_metas"
    ELSE "ws_search"

\* analyze_document_states and the loop that fills the two lists
SearchStart(file_list, ignore_case) ==
    /\ pc = "idle"
    /\ LET error == analyze_read_error(documents_shard, files, file_list)
           doc_states == IF error # NoError THEN <<>>
                         ELSE analyze_document_states(documents_shard, files,
                                                      file_list)
           lines == line_embeddings_to_upsert(doc_states, ignore_case)
           metas == docs_to_upsert(doc_states, ignore_case)
       IN  /\ run' = [op |-> "search", paths |-> file_list, states |-> doc_states,
                      lines |-> lines, metas |-> metas,
                      lines_done |-> 0, metas_done |-> 0,
                      line_upserts |-> 0, meta_upserts |-> 0,
                      docs0 |-> documents_shard, lines0 |-> line_embeddings_shard,
                      prev |-> last, ranked |-> <<>>, error |-> error,
                      ignore_case |-> ignore_case]
           /\ pc' = IF error # NoError THEN "ret"
                    ELSE next_write(lines, 0, metas, 0)
    /\ UNCHANGED <<files, documents_shard, line_embeddings_shard,
                   last, orphans, disk, env, config_json>>

\* one chunk of store.upsert_line_embeddings(&line_embeddings_to_upsert)
WsUpsertLines ==
    /\ pc = "ws_lines"
    /\ LET cs == chunks(run.lines, ChunkSize)
           k == run.lines_done + 1
       IN  /\ line_embeddings_shard' =
                  upsert_line_embeddings_chunk(line_embeddings_shard, cs[k])
           /\ orphans' = orphans \ {<<cs[k][i].path, cs[k][i].line_number>> :
                                        i \in 1..Len(cs[k])}
           /\ run' = [run EXCEPT !.lines_done = k,
                                 !.line_upserts = IF k = 1 THEN 1 ELSE @]
           /\ pc' = next_write(run.lines, k, run.metas, run.metas_done)
    /\ UNCHANGED <<files, documents_shard, last>>
    /\ disk' = [disk EXCEPT !.line_embeddings =
                    flush_line_embeddings(line_embeddings_shard', @)]
    /\ UNCHANGED <<env, config_json>>

\* one chunk of store.upsert_document_metadata(&docs_to_upsert)
WsUpsertMetas ==
    /\ pc = "ws_metas"
    /\ LET cs == chunks(run.metas, ChunkSize)
           k == run.metas_done + 1
       IN  /\ documents_shard' = upsert_document_metadata_chunk(documents_shard, cs[k])
           /\ run' = [run EXCEPT !.metas_done = k,
                                 !.meta_upserts = IF k = 1 THEN 1 ELSE @]
           /\ pc' = next_write(run.lines, run.lines_done, run.metas, k)
    /\ UNCHANGED <<files, line_embeddings_shard, last, orphans>>
    /\ disk' = [disk EXCEPT !.documents = flush_documents(documents_shard', @)]
    /\ UNCHANGED <<env, config_json>>

\* store.search_line_embeddings(&query_embedding, files, top_k, max_distance)
WsSearch(config) ==
    /\ pc = "ws_search"
    /\ run' = [run EXCEPT !.ranked =
                   search_line_embeddings(line_embeddings_shard, config.query,
                                          run.paths, config.top_k,
                                          config.max_distance)]
    /\ pc' = "ret"
    /\ UNCHANGED <<files, documents_shard, line_embeddings_shard,
                   last, orphans, disk, env, config_json>>

-----------------------------------------------------------------------------
(* Store::delete_documents and workspace_prune_cmd *)

DeleteLists == {<<"a">>, <<"b">>, <<"a", "b">>}

\* delete_documents: self.delete_document_metadata(paths)?
DeleteStart(paths) ==
    /\ pc = "idle"
    /\ run' = [op |-> "delete", paths |-> paths,
               docs0 |-> documents_shard, lines0 |-> line_embeddings_shard]
    /\ documents_shard' = delete_document_metadata(documents_shard, paths)
    /\ pc' = "del_lines"
    /\ UNCHANGED <<files, line_embeddings_shard, last, orphans>>
    /\ disk' = [disk EXCEPT !.documents = flush_documents(documents_shard', @)]
    /\ UNCHANGED <<env, config_json>>

\* delete_documents: self.delete_line_embeddings(paths)?
DeleteLines ==
    /\ pc = "del_lines"
    /\ line_embeddings_shard' = delete_line_embeddings(line_embeddings_shard, run.paths)
    /\ orphans' = {o \in orphans : o[1] \notin Range(run.paths)}
    /\ pc' = "ret"
    /\ UNCHANGED <<files, documents_shard, run, last>>
    /\ disk' = [disk EXCEPT !.line_embeddings =
                    flush_line_embeddings(line_embeddings_shard', @)]
    /\ UNCHANGED <<env, config_json>>

\* the paths of a set in the order the engine's scroll gives them
SeqOfSet(S) ==
    IF S = {} THEN <<>>
    ELSE IF "a" \in S THEN <<"a">> \o (IF "b" \in S THEN <<"b">> ELSE <<>>)
    ELSE <<"b">>

\* workspace_prune_cmd up to the first removal of delete_documents
PruneStart ==
    /\ pc = "idle"
    /\ LET all_paths == SeqOfSet(get_all_document_paths(documents_shard))
           missing_paths == SelectSeq(all_paths, LAMBDA p : ~files[p].exists)
           total_before == Len(all_paths)
           files_removed == Len(missing_paths)
       IN  /\ run' = [op |-> "prune", paths |-> missing_paths,
                      total_before |-> total_before,
                      files_removed |-> files_removed,
                      files_remaining |-> total_before - files_removed,
                      docs0 |-> documents_shard, lines0 |-> line_embeddings_shard]
           /\ documents_shard' = delete_document_metadata(documents_shard, missing_paths)
           /\ pc' = IF missing_paths = <<>> THEN "ret" ELSE "del_lines"
    /\ UNCHANGED <<files, line_embeddings_shard, last, orphans>>
    /\ disk' = [disk EXCEPT !.documents = flush_documents(documents_shard', @)]
    /\ UNCHANGED <<env, config_json>>

\* the call returns to its caller
Return ==
    /\ pc = "ret"
    /\ pc' = "idle"
    /\ run' = NoRun
    /\ last' = IF run.op = "print" \/ (run.op = "search" /\ run.error = NoError)
                THEN [NoLast EXCEPT !.op = "search", !.paths = run.paths]
                ELSE IF run.op \in {"prune", "save"} THEN [NoLast EXCEPT !.op = run.op]
                ELSE NoLast
    /\ UNCHANGED <<files, documents_shard, line_embeddings_shard,
                   orphans, disk, env, config_json>>

\* the process stops between two writes; the next process opens the Store on
\* what was flushed
Crash ==
    /\ pc \in {"ws_lines", "ws_metas", "ws_search", "del_lines"}
    /\ pc' = "idle"
    /\ run' = NoRun
    /\ last' = [NoLast EXCEPT !.op = "stop", !.at = pc,
                              !.paths = IF pc = "del_lines" THEN run.paths ELSE <<>>]
    /\ orphans' = IF pc = "del_lines"
                  THEN orphans \cup
                       {k \in line_keys(line_embeddings_shard) : k[1] \in Range(run.paths)}
                  ELSE orphans
    /\ documents_shard' = EdgeShard_load(disk.documents)
    /\ line_embeddings_shard' = EdgeShard_load(disk.line_embeddings)
    /\ UNCHANGED <<files, disk, env, config_json>>

-----------------------------------------------------------------------------
(* Specifications *)

\* file "b" only ever holds one line; file "a" holds any content
FileEdit ==
    \/ \E c \in Contents, m \in Mtimes : WriteFile("a", c, m)
    \/ WriteFile("b", <<"Dog">>, 100)
    \/ \E p \in Paths : RemoveFile(p)

\* config.ignore_case of the runs
IgnoreCase == {FALSE}

CompletedNext ==
    \/ FileEdit
    \/ \E fl \in FileLists, ic \in IgnoreCase : SearchStart(fl, ic)
    \/ WsUpsertLines
    \/ WsUpsertMetas
    \/ \E config \in SearchConfigs : WsSearch(config)
    \/ \E paths \in DeleteLists : DeleteStart(paths)
    \/ DeleteLines
    \/ PruneStart
    \/ Return

Next == CompletedNext \/ Crash

\* the workspace as the commands drive it; the process may stop at any write
Spec == Init /\ [][Next]_vars

\* the same, every call running to its end
CompletedSpec == Init /\ [][CompletedNext]_vars

-----------------------------------------------------------------------------
(* The Store driven through its public methods, as its tests drive it *)

RECURSIVE upsert_document_metadata_from(_, _, _)
upsert_document_metadata_from(docs, cs, k) ==
    IF k > Len(cs) THEN docs
    ELSE upsert_document_metadata_from(
             upsert_document_metadata_chunk(docs, cs[k]), cs, k + 1)

\* Store::upsert_document_metadata
upsert_document_metadata(docs, metas) ==
    IF metas = <<>> THEN docs
    ELSE upsert_document_metadata_from(docs, chunks(metas, ChunkSize), 1)

RECURSIVE upsert_line_embeddings_from(_, _, _)
upsert_line_embeddings_from(lines, cs, k) ==
    IF k > Len(cs) THEN lines
    ELSE upsert_line_embeddings_from(
             upsert_line_embeddings_chunk(lines, cs[k]), cs, k + 1)

\* Store::upsert_line_embeddings
upsert_line_embeddings(lines, line_embeddings) ==
    IF line_embeddings = <<>> THEN lines
    ELSE upsert_line_embeddings_from(lines, chunks(line_embeddings, ChunkSize), 1)

\* the DocMeta values a caller of the Store passes
MetasOf(p) ==
    IF p = "a"
    THEN {[path |-> "a", size_bytes |-> s, mtime |-> m, version |-> v] :
             s \in {4}, m \in Mtimes, v \in Versions}
    ELSE {[path |-> "b", size_bytes |-> 4, mtime |-> 100, version |-> v] :
             v \in Versions}

MetaLists ==
    {<<m>> : m \in MetasOf("a") \cup MetasOf("b")} \cup
    {<<ma, mb>> : ma \in MetasOf("a"), mb \in MetasOf("b")}

\* the LineEmbedding a caller of the Store passes for a line
LineOf(p, n) ==
    [path |-> p, line_number |-> n,
     embedding |-> IF p = "a" THEN encode(text_line(n + 1)) ELSE encode("dog")]

\* line 0 of "a" embedded from another text
OtherLine == [path |-> "a", line_number |-> 0, embedding |-> 3]

LineLists ==
    {<<LineOf("a", n)>> : n \in 0..(MaxLines - 1)} \cup
    {<<LineOf("b", 0)>>, <<LineOf("a", 0), LineOf("b", 0)>>, <<OtherLine>>}

\* the paths of the metas that replace a stored DocMeta with other fields
replaced_metas(docs, metas) ==
    {metas[i].path : i \in {j \in 1..Len(metas) :
        \E pt \in docs : pt.payload.path = metas[j].path /\ pt.payload # metas[j]}}

\* the (path, line_number) of the lines that replace a stored entry with
\* another embedding
replaced_lines(lines, line_embeddings) ==
    {<<line_embeddings[i].path, line_embeddings[i].line_number>> :
        i \in {j \in 1..Len(line_embeddings) :
            \E pt \in lines :
                /\ pt.payload.path = line_embeddings[j].path
                /\ pt.payload.line_number = line_embeddings[j].line_number
                /\ pt.vector # line_embeddings[j].embedding}}

StoreUpsertDocumentMetadata(metas) ==
    /\ pc = "idle"
    /\ documents_shard' = upsert_document_metadata(documents_shard, metas)
    /\ last' = IF replaced_metas(documents_shard, metas) = {} THEN NoLast
                ELSE [NoLast EXCEPT !.op = "replaced", !.at = "documents"]
    /\ UNCHANGED <<files, line_embeddings_shard, pc, run, orphans>>
    /\ disk' = [disk EXCEPT !.documents = flush_documents(documents_shard', @)]
    /\ UNCHANGED <<env, config_json>>

StoreUpsertLineEmbeddings(line_embeddings) ==
    /\ pc = "idle"
    /\ line_embeddings_shard' =
           upsert_line_embeddings(line_embeddings_shard, line_embeddings)
    /\ last' = IF replaced_lines(line_embeddings_shard, line_embeddings) = {}
                THEN NoLast
                ELSE [NoLast EXCEPT !.op = "replaced", !.at = "line_embeddings"]
    /\ UNCHANGED <<files, documents_shard, pc, run, orphans>>
    /\ disk' = [disk EXCEPT !.line_embeddings =
                    flush_line_embeddings(line_embeddings_shard', @)]
    /\ UNCHANGED <<env, config_json>>

StoreGetExistingDocs(paths) ==
    /\ pc = "idle"
    /\ run' = [op |-> "get_existing_docs", paths |-> paths,
               existing |-> get_existing_docs(documents_shard, paths)]
    /\ pc' = "ret"
    /\ UNCHANGED <<files, documents_shard, line_embeddings_shard,
                   last, orphans, disk, env, config_json>>

StoreAnalyzeDocumentStates(file_paths) ==
    /\ pc = "idle"
    /\ LET error == analyze_read_error(documents_shard, files, file_paths)
       IN  run' = [op |-> "analyze", paths |-> file_paths, error |-> error,
                   states |-> IF error # NoError THEN <<>>
                              ELSE analyze_document_states(documents_shard, files,
                                                           file_paths)]
    /\ pc' = "ret"
    /\ UNCHANGED <<files, documents_shard, line_embeddings_shard,
                   last, orphans, disk, env, config_json>>

TopKs == {1, MaxTopK}

StoreSearchLineEmbeddings(query_vec, subset_paths, top_k, max_distance) ==
    /\ pc = "idle"
    /\ run' = [op |-> "search_line_embeddings", paths |-> subset_paths,
               query |-> query_vec, top_k |-> top_k, max_distance |-> max_distance,
               ranked |-> search_line_embeddings(line_embeddings_shard, query_vec,
                                                 subset_paths, top_k, max_distance)]
    /\ pc' = "ret"
    /\ UNCHANGED <<files, documents_shard, line_embeddings_shard,
                   last, orphans, disk, env, config_json>>

\* the files the analysis reads: their sizes vary, not their times
StoreFileEdit ==
    \/ \E c \in Contents : WriteFile("a", c, 100)
    \/ WriteFile("b", <<"Dog">>, 100)
    \/ \E p \in Paths : RemoveFile(p)

StoreNext ==
    \/ StoreFileEdit
    \/ \E metas \in MetaLists : StoreUpsertDocumentMetadata(metas)
    \/ \E les \in LineLists : StoreUpsertLineEmbeddings(les)
    \/ \E paths \in FileLists : StoreGetExistingDocs(paths)
    \/ \E paths \in FileLists : StoreAnalyzeDocumentStates(paths)
    \/ \E q \in Queries, paths \in FileLists, k \in TopKs, d \in {NoDistance, 3} :
           StoreSearchLineEmbeddings(q, paths, k, d)
    \/ \E paths \in DeleteLists : DeleteStart(paths)
    \/ DeleteLines
    \/ Return

StoreSpec == Init /\ [][StoreNext]_vars

-----------------------------------------------------------------------------
(* The two rankings side by side: search_files and search_cmd over the files,
   search_line_embeddings over a store filled by upsert_line_embeddings *)

\* the words a query is made of
QueryWords == {"cat", "Dog", "dog"}

\* top_k of a ranking call: none, one, the largest usual one, and the first
\* whose double does not fit a usize
RankTopKs == {0, 1, MaxTopK, 2 ^ (UsizeBits - 1)}

\* n_lines of a search: no context, one line, and usize::MAX
ContextSizes == {0, 1, usize_MAX}

\* the path lists of a ranking call; a caller may name a file twice
RankLists == FileLists \cup {<<"a", "a">>}

SearchConfigsOf(context_sizes, top_ks, max_distances) ==
    [n_lines : context_sizes, top_k : top_ks, max_distance : max_distances,
     ignore_case : BOOLEAN]

\* search_files called from a library user
SearchFiles(file_list, query, config) ==
    /\ pc = "idle"
    /\ run' = [op |-> "search_files", paths |-> file_list, query |-> query,
               config |-> config,
               documents |-> documents_of(files, file_list, config.ignore_case),
               out |-> search_files(files, file_list, query, config)]
    /\ pc' = "ret"
    /\ UNCHANGED <<files, documents_shard, line_embeddings_shard,
                   last, orphans, disk, env, config_json>>

\* search_cmd, the command line
SearchCmd(file_list, query, config) ==
    /\ pc = "idle"
    /\ run' = [op |-> "search_cmd", paths |-> file_list, query |-> query,
               config |-> config,
               documents |-> documents_of(files, file_list, config.ignore_case),
               out |-> search_cmd(files, file_list, query, config)]
    /\ pc' = "ret"
    /\ UNCHANGED <<files, documents_shard, line_embeddings_shard,
                   last, orphans, disk, env, config_json>>

\* idx + config.n_lines + 1 does not fit a usize for a line search_documents
\* takes
context_overflows(documents, query_embedding, config) ==
    \E d \in 1..Len(documents) :
        \E r \in Range(results_of_document(documents[d], query_embedding, config)) :
            r.match_line + config.n_lines + 1 > usize_MAX

\* a build with overflow checks: the addition panics, the call never returns
SearchFilesPanics(file_list, query, config) ==
    /\ pc = "idle"
    /\ \A i \in 1..Len(file_list) : files[file_list[i]].exists
    /\ context_overflows(documents_of(files, file_list, config.ignore_case),
                         encode(query), config)
    /\ last' = [NoLast EXCEPT !.op = "panic", !.at = "search_documents"]
    /\ UNCHANGED <<files, documents_shard, line_embeddings_shard, pc,
                   run, orphans, disk, env, config_json>>

\* a build with overflow checks: top_k * 2 panics, the call never returns
SearchLineEmbeddingsPanics(subset_paths, top_k) ==
    /\ pc = "idle"
    /\ subset_paths # <<>> /\ top_k # 0
    /\ top_k * 2 > usize_MAX
    /\ last' = [NoLast EXCEPT !.op = "panic", !.at = "search_line_embeddings"]
    /\ UNCHANGED <<files, documents_shard, line_embeddings_shard, pc,
                   run, orphans, disk, env, config_json>>

RankingNext ==
    \/ StoreFileEdit
    \/ \E les \in LineLists : StoreUpsertLineEmbeddings(les)
    \/ \E q \in Queries, paths \in RankLists, k \in RankTopKs, d \in MaxDistances :
           StoreSearchLineEmbeddings(q, paths, k, d)
    \/ \E paths \in RankLists, k \in RankTopKs : SearchLineEmbeddingsPanics(paths, k)
    \/ \E fl \in FileLists, q \in QueryWords,
          config \in SearchConfigsOf(ContextSizes, {0, 1, MaxTopK}, {NoDistance, 3}) :
           SearchFiles(fl, q, config)
    \/ \E fl \in FileLists, q \in QueryWords,
          config \in SearchConfigsOf({1}, {MaxTopK}, {NoDistance}) :
           SearchCmd(fl, q, config)
    \/ \E fl \in FileLists, q \in QueryWords,
          config \in SearchConfigsOf(ContextSizes, {MaxTopK}, {NoDistance}) :
           SearchFilesPanics(fl, q, config)
    \/ Return

RankingSpec == Init /\ [][RankingNext]_vars

-----------------------------------------------------------------------------
(* Workspace::save and Workspace::open under the user's environment *)

\* the user sets or unsets SEMTOOLS_WORKSPACE
SetEnv(e) ==
    /\ pc = "idle"
    /\ env # e
    /\ env' = e
    /\ last' = NoLast
    /\ UNCHANGED <<files, documents_shard, line_embeddings_shard, pc, run,
                   orphans, disk, config_json>>

\* the user removes a config.json or leaves one that does not parse
EditConfig(name, file) ==
    /\ pc = "idle"
    /\ config_json[name] # file
    /\ config_json' = [config_json EXCEPT ![name] = file]
    /\ last' = NoLast
    /\ UNCHANGED <<files, documents_shard, line_embeddings_shard, pc, run,
                   orphans, disk, env>>

\* Workspace::save
WorkspaceSave(config) ==
    /\ pc = "idle"
    /\ config_json' = [config_json EXCEPT ![config.name] = saved_file(config)]
    /\ run' = [op |-> "save", config |-> config]
    /\ pc' = "ret"
    /\ UNCHANGED <<files, documents_shard, line_embeddings_shard, last,
                   orphans, disk, env>>

\* Workspace::open
WorkspaceOpen ==
    /\ pc = "idle"
    /\ run' = [op |-> "open", out |-> Workspace_open(env, config_json),
               config_json0 |-> config_json]
    /\ pc' = "ret"
    /\ UNCHANGED <<files, documents_shard, line_embeddings_shard, last,
                   orphans, disk, env, config_json>>

\* config.json files that do not give a WorkspaceConfig
MalformedFiles ==
    {NoFile} \cup
    {[exists |-> TRUE, content |-> c, mtime |-> 100] :
        c \in {InvalidUtf8, truncated_json, without_oversample_factor}}

WorkspaceNext ==
    \/ \E e \in Names \cup {""} : SetEnv(e)
    \/ \E name \in Names, file \in MalformedFiles : EditConfig(name, file)
    \/ \E config \in WorkspaceConfigs : WorkspaceSave(config)
    \/ WorkspaceOpen
    \/ Return

WorkspaceSpec == Init /\ [][WorkspaceNext]_vars

-----------------------------------------------------------------------------
(* search_cmd over files: the workspace when one is active, else stateless *)

\* search_cmd with a list of files
CmdSearch(file_list, query, config) ==
    IF active(env).ok
    THEN SearchStart(file_list, config.ignore_case)
    ELSE SearchCmd(file_list, query, config)

DispatchNext ==
    \/ \E e \in {"", "ws"} : SetEnv(e)
    \/ StoreFileEdit
    \/ \E fl \in FileLists, q \in {"cat", "Dog"},
          config \in SearchConfigsOf({1}, {MaxTopK}, {NoDistance}) :
           CmdSearch(fl, q, config)
    \/ WsUpsertLines
    \/ WsUpsertMetas
    \/ WsSearch([query |-> 0, top_k |-> MaxTopK, max_distance |-> NoDistance])
    \/ Return

DispatchSpec == Init /\ [][DispatchNext]_vars

-----------------------------------------------------------------------------
(* search_cmd in workspace mode: the results resolved against the files *)

\* what print_workspace_search_results and the JSON output derive from one
\* RankedLine: the window they report, and the slice of the file they take
workspace_window(ranked_line, fs, n_lines) ==
    LET match_line_number == ranked_line.line_number
        start == saturating_sub(match_line_number, n_lines)
        end == usize_add(usize_add(match_line_number, n_lines), 1)
        content == read_to_string(fs, ranked_line.path)
        actual_end == Min(end, Len(content.content))
    IN  [filename |-> ranked_line.path, match_line |-> match_line_number,
         start |-> start, end |-> end, read |-> content.ok,
         file_lines |-> Len(content.content),
         actual_start |-> start, actual_end |-> actual_end]

\* lines[actual_start..actual_end] panics when the range is not in order
slice_panics(window) == window.read /\ window.actual_start > window.actual_end

\* the windows of the results of the search that has just returned
windows_of(ranked, fs, n_lines) ==
    [k \in 1..Len(ranked) |-> workspace_window(ranked[k], fs, n_lines)]

\* the presentation of the ranked lines
PrintWorkspaceResults(n_lines) ==
    /\ pc = "ret" /\ run.op = "search" /\ run.error = NoError
    /\ LET windows == windows_of(run.ranked, files, n_lines)
       IN  /\ \A k \in 1..Len(windows) : ~slice_panics(windows[k])
           /\ run' = [op |-> "print", paths |-> run.paths, n_lines |-> n_lines,
                      ranked |-> run.ranked, windows |-> windows]
    /\ UNCHANGED <<files, documents_shard, line_embeddings_shard, pc, last,
                   orphans, disk, env, config_json>>

\* the presentation panics on a slice: the process ends
PrintWorkspaceResultsPanics(n_lines) ==
    /\ pc = "ret" /\ run.op = "search" /\ run.error = NoError
    /\ \E k \in 1..Len(run.ranked) :
           slice_panics(workspace_window(run.ranked[k], files, n_lines))
    /\ pc' = "idle"
    /\ run' = NoRun
    /\ last' = [NoLast EXCEPT !.op = "panic", !.at = "print_workspace_search_results"]
    /\ UNCHANGED <<files, documents_shard, line_embeddings_shard,
                   orphans, disk, env, config_json>>

PresentNext ==
    \/ \E c \in Contents : WriteFile("a", c, 100)
    \/ RemoveFile("a")
    \/ SearchStart(<<"a">>, FALSE)
    \/ WsUpsertLines
    \/ WsUpsertMetas
    \/ \E config \in SearchConfigs : WsSearch(config)
    \/ \E n_lines \in {0, 1} : PrintWorkspaceResults(n_lines)
    \/ \E n_lines \in {0, 1} : PrintWorkspaceResultsPanics(n_lines)
    \/ Return

PresentSpec == Init /\ [][PresentNext]_vars

-----------------------------------------------------------------------------
(* The writes of the Store, one engine update at a time *)

\* the inputs of upsert_line_embeddings: none, one line, several
BatchLineLists ==
    {<<>>, <<LineOf("a", 0)>>, <<LineOf("a", 0), LineOf("b", 0)>>,
     <<LineOf("a", 0), LineOf("a", 1), LineOf("b", 0)>>,
     <<LineOf("b", 0), OtherLine, LineOf("a", 0)>>}

\* the inputs of upsert_document_metadata
BatchMetaLists ==
    {<<>>} \cup MetaLists \cup
    {<<ma, mb, mc>> : ma \in MetasOf("a"), mb \in MetasOf("b"),
                      mc \in {m \in MetasOf("a") : m.mtime = 200}}

\* upsert_line_embeddings or upsert_document_metadata up to its loop
StoreUpsertStart(shard, input) ==
    /\ pc = "idle"
    /\ run' = [op |-> "upsert", shard |-> shard, input |-> input,
               updates |-> <<>>, flushes |-> 0]
    /\ pc' = IF input = <<>> THEN "ret" ELSE "upsert"
    /\ UNCHANGED <<files, documents_shard, line_embeddings_shard,
                   last, orphans, disk, env, config_json>>

\* one turn of the loop: the engine update of the chunk, then the flush
StoreUpsertChunk ==
    /\ pc = "upsert"
    /\ LET cs == chunks(run.input, ChunkSize)
           k == Len(run.updates) + 1
       IN  /\ IF run.shard = "documents"
              THEN /\ documents_shard' =
                          upsert_document_metadata_chunk(documents_shard, cs[k])
                   /\ disk' = [disk EXCEPT !.documents =
                                   flush_documents(documents_shard', @)]
                   /\ UNCHANGED line_embeddings_shard
              ELSE /\ line_embeddings_shard' =
                          upsert_line_embeddings_chunk(line_embeddings_shard, cs[k])
                   /\ disk' = [disk EXCEPT !.line_embeddings =
                                   flush_line_embeddings(line_embeddings_shard', @)]
                   /\ UNCHANGED documents_shard
           /\ run' = [run EXCEPT !.updates = Append(@, cs[k]),
                                 !.flushes = @ + 1]
           /\ pc' = IF k = Len(cs) THEN "ret" ELSE "upsert"
    /\ UNCHANGED <<files, last, orphans, env, config_json>>

BatchNext ==
    \/ \E line_embeddings \in BatchLineLists :
           StoreUpsertStart("line_embeddings", line_embeddings)
    \/ \E metas \in BatchMetaLists : StoreUpsertStart("documents", metas)
    \/ StoreUpsertChunk
    \/ Return

BatchSpec == Init /\ [][BatchNext]_vars

-----------------------------------------------------------------------------
(* search_with_workspace beside search_files on the same files *)

\* the last statement of search_with_workspace, the query and the config of
\* the call kept: the query is encoded as given, max_distance is unset
WsSearchQuery(query, top_k) ==
    /\ pc = "ws_search"
    /\ run' = [op |-> "search", paths |-> run.paths, error |-> NoError,
               query |-> query,
               config |-> [n_lines |-> 0, top_k |-> top_k,
                           max_distance |-> NoDistance,
                           ignore_case |-> run.ignore_case],
               ranked |-> search_line_embeddings(line_embeddings_shard,
                              encode(query), run.paths, top_k, NoDistance)]
    /\ pc' = "ret"
    /\ UNCHANGED <<files, documents_shard, line_embeddings_shard,
                   last, orphans, disk, env, config_json>>

AgreeNext ==
    \/ FileEdit
    \/ \E fl \in FileLists, ic \in BOOLEAN : SearchStart(fl, ic)
    \/ WsUpsertLines
    \/ WsUpsertMetas
    \/ \E q \in QueryWords, k \in {1, MaxTopK} : WsSearchQuery(q, k)
    \/ Return

AgreeSpec == Init /\ [][AgreeNext]_vars

-----------------------------------------------------------------------------
(* search_with_workspace over file "a" while another process writes it *)

\* the contents the other process writes: two of them have the same size
RaceContents == Contents \cup {<<"Dog">>}

\* another process creates the file, or modifies it at any point of a run;
\* the clock never goes back, and a modification changes the size or the
\* mtime of the file
OtherProcessWrites(c, m) ==
    /\ files["a"].exists =>
           /\ pc # "idle"
           /\ m >= files["a"].mtime
           /\ size_of(c) # size_of(files["a"].content) \/ m # files["a"].mtime
    /\ files' = [files EXCEPT !["a"] = [exists |-> TRUE, content |-> c, mtime |-> m]]
    /\ UNCHANGED <<documents_shard, line_embeddings_shard, pc, run,
                   last, orphans, disk, env, config_json>>

\* the run once analyze_document_states has returned doc_states
analyzed_run(doc_states, prev, seen) ==
    LET lines == line_embeddings_to_upsert(doc_states, FALSE)
        metas == docs_to_upsert(doc_states, FALSE)
    IN  [op |-> "search", paths |-> <<"a">>, states |-> doc_states,
         lines |-> lines, metas |-> metas, lines_done |-> 0, metas_done |-> 0,
         line_upserts |-> 0, meta_upserts |-> 0,
         docs0 |-> documents_shard, lines0 |-> line_embeddings_shard,
         prev |-> prev, ranked |-> <<>>, error |-> NoError,
         ignore_case |-> FALSE, seen |-> seen]

\* analyze_document_states: self.get_existing_docs(file_paths)
RaceStart ==
    /\ pc = "idle"
    /\ run' = [op |-> "search", paths |-> <<"a">>, error |-> NoError,
               existing_docs |-> get_existing_docs(documents_shard, <<"a">>),
               prev |-> last]
    /\ pc' = "ws_metadata"
    /\ UNCHANGED <<files, documents_shard, line_embeddings_shard,
                   last, orphans, disk, env, config_json>>

\* analyze_document_states: std::fs::metadata(file_path) and the comparison
\* with the stored DocMeta
RaceMetadata ==
    /\ pc = "ws_metadata"
    /\ IF ~files["a"].exists
       THEN /\ run' = analyzed_run(<<>>, run.prev, files["a"])
            /\ pc' = "ws_search"
       ELSE LET state == document_state(run.existing_docs, files, "a")
            IN  IF state.kind = "Unchanged"
                THEN /\ run' = analyzed_run(<<state>>, run.prev, files["a"])
                     /\ pc' = "ws_search"
                ELSE /\ run' = [op |-> "search", paths |-> <<"a">>,
                                error |-> NoError, prev |-> run.prev,
                                kind |-> state.kind,
                                current_meta |-> state.info.meta,
                                seen |-> files["a"]]
                     /\ pc' = "ws_read"
    /\ UNCHANGED <<files, documents_shard, line_embeddings_shard,
                   last, orphans, disk, env, config_json>>

\* analyze_document_states: std::fs::read_to_string(file_path), after the
\* metadata was taken; then the loop that fills the two lists
RaceRead ==
    /\ pc = "ws_read"
    /\ LET state == [kind |-> run.kind, path |-> "a",
                     info |-> [filename |-> "a",
                               content |-> read_to_string(files, "a").content,
                               meta |-> run.current_meta]]
           next == analyzed_run(<<state>>, run.prev, run.seen)
       IN  /\ run' = next
           /\ pc' = next_write(next.lines, 0, next.metas, 0)
    /\ UNCHANGED <<files, documents_shard, line_embeddings_shard,
                   last, orphans, disk, env, config_json>>

RaceNext ==
    \/ \E c \in RaceContents, m \in Mtimes : OtherProcessWrites(c, m)
    \/ RaceStart
    \/ RaceMetadata
    \/ RaceRead
    \/ WsUpsertLines
    \/ WsUpsertMetas
    \/ WsSearch([query |-> 0, top_k |-> 1, max_distance |-> NoDistance])
    \/ Return

RaceSpec == Init /\ [][RaceNext]_vars

-----------------------------------------------------------------------------
(* The parse client: create_parse_job_with_retry, poll_for_result_with_retry *)

\* config.max_retries of a call: a few small values and usize::MAX
RetryLimits == 0..MaxRetries \cup {usize_MAX}

\* what one attempt can end with: the value, a reqwest error (a failed
\* connection, a body that does not decode), or an error of another kind
Attempt_ok == [kind |-> "Ok", err |-> ""]

create_parse_job_outcomes ==
    {Attempt_ok} \cup [kind : {"HttpError"}, err : {"connect", "decode"}] \cup
    [kind : {"IoError", "InvalidResponse", "SerializationError"}, err : {""}]

poll_for_result_outcomes ==
    {Attempt_ok} \cup [kind : {"HttpError"}, err : {"connect", "decode"}] \cup
    [kind : {"TimeoutError", "InvalidResponse"}, err : {""}]

\* the test `is_retryable` of both loops
is_retryable(err) == err \in {"connect", "timeout", "request", "server_error"}

\* one turn of the loop that tries again after every HTTP error
with_retry_unbounded(attempt, max_retries, outcome) ==
    IF outcome.kind = "HttpError" THEN [result |-> "again"]
    ELSE [result |-> outcome.kind]

\* one turn of `for attempt in 0..=config.max_retries`: what the function
\* returns, or "again" when it sleeps and goes to the next attempt
with_retry(attempt, max_retries, outcome) ==
    IF outcome.kind = "HttpError"
    THEN IF attempt = max_retries THEN [result |-> "RetryExhausted"]
         ELSE IF ~is_retryable(outcome.err) THEN [result |-> "HttpError"]
         ELSE [result |-> "again"]
    ELSE [result |-> outcome.kind]

\* the message of a retry or of RetryExhausted holds config.max_retries + 1
message_overflows(attempt, max_retries, outcome) ==
    /\ outcome.kind = "HttpError"
    /\ attempt = max_retries \/ is_retryable(outcome.err)
    /\ max_retries + 1 > usize_MAX

outcomes_of(function) ==
    IF function = "create_parse_job_with_retry" THEN create_parse_job_outcomes
    ELSE poll_for_result_outcomes

\* the call, up to its loop
RetryStart(function, max_retries) ==
    /\ pc = "idle"
    /\ run' = [op |-> function, max_retries |-> max_retries, attempt |-> 0,
               outcomes |-> <<>>, result |-> "none"]
    /\ pc' = "attempt"
    /\ UNCHANGED <<files, documents_shard, line_embeddings_shard,
                   last, orphans, disk, env, config_json>>

\* one attempt and what the loop does with its outcome
RetryAttempt(outcome) ==
    /\ pc = "attempt"
    /\ outcome \in outcomes_of(run.op)
    /\ LET step == with_retry(run.attempt, run.max_retries, outcome)
       IN  /\ run' = [run EXCEPT
                         !.outcomes = Append(@, outcome),
                         !.attempt = IF step.result = "again" THEN @ + 1 ELSE @,
                         !.result = IF step.result = "again" THEN "none"
                                    ELSE step.result]
           /\ pc' = IF step.result = "again" THEN "attempt" ELSE "ret"
    /\ UNCHANGED <<files, documents_shard, line_embeddings_shard,
                   last, orphans, disk, env, config_json>>

\* a build with overflow checks: config.max_retries + 1 panics
RetryAttemptPanics(outcome) ==
    /\ pc = "attempt"
    /\ outcome \in outcomes_of(run.op)
    /\ message_overflows(run.attempt, run.max_retries, outcome)
    /\ pc' = "idle"
    /\ run' = NoRun
    /\ last' = [NoLast EXCEPT !.op = "panic", !.at = run.op]
    /\ UNCHANGED <<files, documents_shard, line_embeddings_shard,
                   orphans, disk, env, config_json>>

RetryStep ==
    \/ \E outcome \in create_parse_job_outcomes \cup poll_for_result_outcomes :
           RetryAttempt(outcome)
    \/ \E outcome \in create_parse_job_outcomes \cup poll_for_result_outcomes :
           RetryAttemptPanics(outcome)

RetryNext ==
    \/ \E function \in {"create_parse_job_with_retry", "poll_for_result_with_retry"},
          max_retries \in RetryLimits : RetryStart(function, max_retries)
    \/ RetryStep
    \/ Return

\* every attempt comes to an end: a request answers, fails, or the job
\* times out
RetrySpec == Init /\ [][RetryNext]_vars /\ WF_vars(RetryStep)

-----------------------------------------------------------------------------
(* LlamaParseBackend::parse: one task per file, a semaphore between them *)

\* the files of a call that are neither skipped nor cached: each gets a task
SpawnedCounts == 0..MaxParseFiles

\* config.num_ongoing_requests: any usize, zero included
OngoingRequests == 0..MaxParseFiles

\* the tasks that hold a permit
inside(tasks) == {i \in DOMAIN tasks : tasks[i] = "inside"}

\* a task has come to its end, by a return or by a panic
ended(status) == status \in {"Ok", "Err", "panicked"}

\* parse up to the end of its first loop: the semaphore, and the tasks spawned
ParseStart(num_ongoing_requests, spawned, max_retries) ==
    /\ pc = "idle"
    /\ run' = [op |-> "parse", num_ongoing_requests |-> num_ongoing_requests,
               max_retries |-> max_retries,
               permits |-> num_ongoing_requests,
               tasks |-> [i \in 1..spawned |-> "spawned"],
               joined |-> 0, result |-> "none"]
    /\ pc' = IF spawned = 0 THEN "ret" ELSE "parse_join"
    /\ UNCHANGED <<files, documents_shard, line_embeddings_shard,
                   last, orphans, disk, env, config_json>>

\* semaphore.acquire_owned().await: the task enters process_single_document
TaskAcquire(i) ==
    /\ run.op = "parse"
    /\ i \in DOMAIN run.tasks /\ run.tasks[i] = "spawned"
    /\ run.permits > 0
    /\ run' = [run EXCEPT !.tasks[i] = "inside", !.permits = @ - 1]
    /\ UNCHANGED <<files, documents_shard, line_embeddings_shard, pc,
                   last, orphans, disk, env, config_json>>

\* process_single_document returns and the permit is dropped
TaskReturns(i, result) ==
    /\ run.op = "parse"
    /\ i \in DOMAIN run.tasks /\ run.tasks[i] = "inside"
    /\ run' = [run EXCEPT !.tasks[i] = result, !.permits = @ + 1]
    /\ UNCHANGED <<files, documents_shard, line_embeddings_shard, pc,
                   last, orphans, disk, env, config_json>>

\* the task panics inside process_single_document, in a build with overflow
\* checks on config.max_retries + 1; unwinding drops the permit
TaskPanics(i) ==
    /\ run.op = "parse"
    /\ i \in DOMAIN run.tasks /\ run.tasks[i] = "inside"
    /\ run.max_retries + 1 > usize_MAX
    /\ run' = [run EXCEPT !.tasks[i] = "panicked", !.permits = @ + 1]
    /\ UNCHANGED <<files, documents_shard, line_embeddings_shard, pc,
                   last, orphans, disk, env, config_json>>

\* one turn of `for handle in handles`: handle.await?, a JoinError returned
\* at once
ParseJoin ==
    /\ pc = "parse_join"
    /\ LET k == run.joined + 1
       IN  /\ ended(run.tasks[k])
           /\ IF run.tasks[k] = "panicked"
              THEN /\ run' = [run EXCEPT !.result = "JoinError"]
                   /\ pc' = "ret"
              ELSE /\ run' = [run EXCEPT !.joined = k,
                                  !.result = IF k = Len(run.tasks) THEN "Ok" ELSE @]
                   /\ pc' = IF k = Len(run.tasks) THEN "ret" ELSE "parse_join"
    /\ UNCHANGED <<files, documents_shard, line_embeddings_shard,
                   last, orphans, disk, env, config_json>>

TaskEnters == \E i \in 1..MaxParseFiles : TaskAcquire(i)

TaskEnds == \E i \in 1..MaxParseFiles, result \in {"Ok", "Err"} : TaskReturns(i, result)

ParseNext ==
    \/ \E n \in OngoingRequests, spawned \in SpawnedCounts,
          max_retries \in {0, usize_MAX} : ParseStart(n, spawned, max_retries)
    \/ TaskEnters
    \/ TaskEnds
    \/ \E i \in 1..MaxParseFiles : TaskPanics(i)
    \/ ParseJoin
    \/ Return

\* the runtime runs every task that can run, every remote job comes to a
\* terminal outcome, and parse goes on when the handle it awaits is ready
ParseSpec ==
    Init /\ [][ParseNext]_vars
         /\ WF_vars(TaskEnters) /\ WF_vars(TaskEnds) /\ WF_vars(ParseJoin)

-----------------------------------------------------------------------------
(* Files that cannot be read *)

\* the user's edits; a file may be left with bytes that are not UTF-8
ReadErrorFileEdit ==
    \/ \E c \in Contents \cup {InvalidUtf8} : WriteFile("a", c, 100)
    \/ \E c \in {<<"Dog">>, InvalidUtf8} : WriteFile("b", c, 100)
    \/ \E p \in Paths : RemoveFile(p)

ReadErrorNext ==
    \/ ReadErrorFileEdit
    \/ \E fl \in FileLists : SearchStart(fl, FALSE)
    \/ WsUpsertLines
    \/ WsUpsertMetas
    \/ WsSearch([query |-> 0, top_k |-> MaxTopK, max_distance |-> NoDistance])
    \/ \E paths \in FileLists : StoreAnalyzeDocumentStates(paths)
    \/ \E fl \in FileLists :
           SearchFiles(fl, "cat", [n_lines |-> 1, top_k |-> MaxTopK,
                                   max_distance |-> NoDistance,
                                   ignore_case |-> FALSE])
    \/ Return

ReadErrorSpec == Init /\ [][ReadErrorNext]_vars

-----------------------------------------------------------------------------
(* create_document_from_content on every short content *)

CreateDocument(filename, c, ignore_case) ==
    /\ pc = "idle"
    /\ run' = [op |-> "create_document", filename |-> filename, content |-> c,
               ignore_case |-> ignore_case,
               out |-> create_document_from_str(filename, c, ignore_case)]
    /\ pc' = "ret"
    /\ UNCHANGED <<files, documents_shard, line_embeddings_shard,
                   last, orphans, disk, env, config_json>>

DocumentNext ==
    \/ \E filename \in Paths, c \in StrsUpTo(MaxChars), ignore_case \in BOOLEAN :
           CreateDocument(filename, c, ignore_case)
    \/ Return

DocumentSpec == Init /\ [][DocumentNext]_vars

-----------------------------------------------------------------------------
(* workspace prune over a store whose entries were written by any version *)

PruneNext ==
    \/ StoreFileEdit
    \/ \E metas \in MetaLists : StoreUpsertDocumentMetadata(metas)
    \/ \E line_embeddings \in LineLists : StoreUpsertLineEmbeddings(line_embeddings)
    \/ PruneStart
    \/ DeleteLines
    \/ Return

PruneSpec == Init /\ [][PruneNext]_vars

-----------------------------------------------------------------------------
(* The Store written, stopped and opened again *)

\* Store::open on a root that exists: both shards are loaded from the root
StoreOpen ==
    /\ pc = "idle"
    /\ documents_shard' = EdgeShard_load(disk.documents)
    /\ line_embeddings_shard' = EdgeShard_load(disk.line_embeddings)
    /\ last' = [NoLast EXCEPT !.op = "open"]
    /\ UNCHANGED <<files, pc, run, orphans, disk, env, config_json>>

DurabilityNext ==
    \/ \E metas \in MetaLists : StoreUpsertDocumentMetadata(metas)
    \/ \E line_embeddings \in LineLists : StoreUpsertLineEmbeddings(line_embeddings)
    \/ \E paths \in DeleteLists : DeleteStart(paths)
    \/ DeleteLines
    \/ Return
    \/ Crash
    \/ StoreOpen

DurabilitySpec == Init /\ [][DurabilityNext]_vars

-----------------------------------------------------------------------------
(* Properties of the Store, checked under StoreSpec *)

\* the documents shard holds a DocMeta for p
has_meta(docs, p) == \E pt \in docs : pt.payload.path = p

\* the documents shard holds a DocMeta for p equal to what the file is now
meta_matches(docs, fs, p) ==
    \E pt \in docs :
        /\ pt.payload.path = p
        /\ pt.payload.size_bytes = size_of(fs[p].content)
        /\ pt.payload.mtime = fs[p].mtime
        /\ pt.payload.version = CURRENT_EMBEDDING_VERSION

AllLists == FileLists \cup {<<"b", "a">>}

\* C1: once delete_documents(paths) has returned, no search, with any query,
\* top_k, max_distance and path filter, returns a line of a deleted path
C1_DeleteThenSearch ==
    (pc = "ret" /\ run.op = "delete") =>
        \A q \in Queries, subset \in AllLists, k \in 0..MaxTopK, d \in MaxDistances :
            LET res == search_line_embeddings(line_embeddings_shard, q, subset, k, d)
            IN  \A i \in 1..Len(res) : res[i].path \notin Range(run.paths)

\* delete_documents(["a"]) has returned; before it "a" had lines and a DocMeta
\* of the older version; a search over both paths still returns lines of "b"
C1_Witness ==
    /\ pc = "ret" /\ run.op = "delete" /\ run.paths = <<"a">>
    /\ Cardinality(scroll_paths(run.lines0, {"a"})) = 2
    /\ \E pt \in run.docs0 : pt.payload.path = "a" /\ pt.payload.version = 1
    /\ search_line_embeddings(line_embeddings_shard, 0, <<"a", "b">>, MaxTopK,
                              NoDistance) # <<>>

\* C2: every line search_line_embeddings returns has a path of subset_paths,
\* for the call made and, on the same store, for every other query, filter,
\* top_k and max_distance
C2_PathFilter ==
    (pc = "ret" /\ run.op = "search_line_embeddings") =>
        /\ \A i \in 1..Len(run.ranked) : run.ranked[i].path \in Range(run.paths)
        /\ \A q \in Queries, subset \in AllLists, k \in 0..MaxTopK, d \in MaxDistances :
               LET res == search_line_embeddings(line_embeddings_shard, q, subset, k, d)
               IN  \A i \in 1..Len(res) : res[i].path \in Range(subset)

\* a search filtered to "a" has returned a line while the store holds a line
\* of "b" that is nearer to the query
C2_Witness ==
    /\ pc = "ret" /\ run.op = "search_line_embeddings" /\ run.paths = <<"a">>
    /\ run.ranked # <<>>
    /\ \E pt \in line_embeddings_shard :
           /\ pt.payload.path = "b"
           /\ 2 - cosine_score(run.query, pt.vector) < run.ranked[1].distance

\* the kinds analyze_document_states gave for path p
kinds_of(states, p) == {states[i].kind : i \in {j \in 1..Len(states) : states[j].path = p}}

\* C3: for a listed path that is on disk, Unchanged iff the stored DocMeta has
\* the file's size, mtime and the current version; Changed iff a DocMeta is
\* stored and one of the three differs; New iff no DocMeta is stored
C3_Classification ==
    (pc = "ret" /\ run.op = "analyze") =>
        \A p \in Range(run.paths) :
            files[p].exists =>
                LET kinds == kinds_of(run.states, p)
                IN  /\ Cardinality(kinds) = 1
                    /\ ("Unchanged" \in kinds) <=> meta_matches(documents_shard, files, p)
                    /\ ("Changed" \in kinds) <=>
                           /\ has_meta(documents_shard, p)
                           /\ ~meta_matches(documents_shard, files, p)
                    /\ ("New" \in kinds) <=> ~has_meta(documents_shard, p)

\* "a" is classified Changed on the version alone: the stored size and mtime
\* are the file's
C3_Witness ==
    /\ pc = "ret" /\ run.op = "analyze" /\ "a" \in Range(run.paths)
    /\ files["a"].exists
    /\ \E pt \in documents_shard :
           /\ pt.payload.path = "a"
           /\ pt.payload.size_bytes = size_of(files["a"].content)
           /\ pt.payload.mtime = files["a"].mtime
           /\ pt.payload.version = 1
    /\ kinds_of(run.states, "a") = {"Changed"}

\* C9: once delete_documents(paths) has returned, no DocMeta and no line entry
\* of a path of paths is stored, whatever version the DocMeta had, and the
\* entries of the other paths are as they were
C9_DeleteBothShards ==
    (pc = "ret" /\ run.op = "delete") =>
        /\ \A p \in Range(run.paths) :
               /\ ~has_meta(documents_shard, p)
               /\ p \notin get_all_document_paths(documents_shard)
               /\ DOMAIN get_existing_docs(documents_shard, <<p>>) = {}
               /\ scroll_paths(line_embeddings_shard, {p}) = {}
        /\ \A p \in Paths \ Range(run.paths) :
               /\ scroll_paths(documents_shard, {p}) = scroll_paths(run.docs0, {p})
               /\ scroll_paths(line_embeddings_shard, {p}) = scroll_paths(run.lines0, {p})

\* the stored DocMeta entries of the paths, any version
stored_metas(docs, paths) == {pt.payload : pt \in scroll_paths(docs, paths)}

\* C10 as claimed: get_existing_docs returns exactly the stored entries of
\* paths whose version is the current one
C10_CurrentVersionOnly ==
    (pc = "ret" /\ run.op = "get_existing_docs") =>
        {run.existing[p] : p \in DOMAIN run.existing} =
            {m \in stored_metas(documents_shard, Range(run.paths)) :
                m.version = CURRENT_EMBEDDING_VERSION}

\* C10 amended: get_existing_docs returns exactly the stored entries of paths,
\* of any version, each under its path; a path with no entry is not a key
C10_AnyVersion ==
    (pc = "ret" /\ run.op = "get_existing_docs") =>
        /\ {run.existing[p] : p \in DOMAIN run.existing} =
               stored_metas(documents_shard, Range(run.paths))
        /\ \A p \in DOMAIN run.existing : run.existing[p].path = p
        /\ \A p \in Range(run.paths) :
               ~has_meta(documents_shard, p) => p \notin DOMAIN run.existing

\* get_existing_docs(["a", "b"]) returned the entry of "a", stored with the
\* older version, and no key for "b", which has no entry
C10_Witness ==
    /\ pc = "ret" /\ run.op = "get_existing_docs" /\ run.paths = <<"a", "b">>
    /\ "a" \in DOMAIN run.existing /\ run.existing["a"].version = 1
    /\ ~has_meta(documents_shard, "b") /\ "b" \notin DOMAIN run.existing
    /\ Cardinality(documents_shard) = 1

-----------------------------------------------------------------------------
(* Properties of search_with_workspace, delete_documents and prune, checked
   under Spec (stops included) and CompletedSpec (every call returns) *)

\* the New and Changed states of the run
to_index(states) ==
    {states[i] : i \in {j \in 1..Len(states) : states[j].kind \in {"New", "Changed"}}}

\* the step is a stop in the write phase of search_with_workspace
StopInWritePhase ==
    /\ pc \in {"ws_lines", "ws_metas"}
    /\ pc' = "idle"
    /\ last'.op = "stop"

\* the kind the next analyze_document_states gives p after the step
next_kind(p) ==
    document_state(get_existing_docs(documents_shard', <<p>>), files', p).kind

\* every line entry derived from the state is stored after the step
lines_stored(state) ==
    LET les == lines_of_state(state, FALSE)
    IN  \A i \in 1..Len(les) : line_point(les[i]) \in line_embeddings_shard'

\* C4 as claimed: a stop anywhere in the write phase leaves every New or
\* Changed file of the run without a DocMeta equal to its current size, mtime
\* and version, and the next analysis does not classify it Unchanged
C4_StopLeavesNoMeta ==
    [][StopInWritePhase =>
           \A st \in to_index(run.states) :
               /\ ~meta_matches(documents_shard', files', st.path)
               /\ next_kind(st.path) # "Unchanged"]_vars

\* C4 amended: no metadata chunk is written before the last line chunk; a
\* stop before the first metadata chunk leaves every New or Changed file
\* without a matching DocMeta and not Unchanged at the next analysis; at a
\* stop between two metadata chunks a file that has its matching DocMeta has
\* all its lines stored
C4_WriteOrdering ==
    [][/\ (run.op = "search" /\ documents_shard' # documents_shard) =>
              /\ run.lines_done = Len(chunks(run.lines, ChunkSize))
              /\ line_embeddings_shard' = line_embeddings_shard
       /\ (run.op = "search" /\ line_embeddings_shard' # line_embeddings_shard) =>
              /\ run.metas_done = 0
              /\ documents_shard' = run.docs0
       /\ StopInWritePhase =>
              \A st \in to_index(run.states) :
                  IF run.metas_done = 0
                  THEN /\ ~meta_matches(documents_shard', files', st.path)
                       /\ next_kind(st.path) # "Unchanged"
                  ELSE meta_matches(documents_shard', files', st.path) =>
                           lines_stored(st)]_vars

\* the run stopped between its two metadata chunks: the lines of both files
\* are stored, "a" has its DocMeta and "b" has none
C4_Witness ==
    /\ last.op = "stop" /\ last.at = "ws_metas"
    /\ files["a"].exists /\ files["b"].exists
    /\ meta_matches(documents_shard, files, "a")
    /\ ~has_meta(documents_shard, "b")
    /\ scroll_paths(line_embeddings_shard, {"b"}) # {}
    /\ Cardinality(scroll_paths(line_embeddings_shard, {"a"})) = Len(files["a"].content)

\* C5: after a stop between the two removals of delete_documents, the next
\* run that lists a path left without DocMeta classifies the file New, and
\* when the run has written, no line entry from before the delete is left for
\* that path
C5_DeleteSelfHeals ==
    (pc = "ret" /\ run.op = "search") =>
        \A p \in Range(run.paths) :
            (files[p].exists /\ ~has_meta(run.docs0, p)) =>
                /\ kinds_of(run.states, p) = {"New"}
                /\ \A o \in orphans : o[1] # p

\* C6: after any sequence of completed calls from an empty store, every path
\* with an entry in the line_embeddings shard has exactly one entry in the
\* documents shard
C6_ShardConsistency ==
    (pc \in {"idle", "ret"}) =>
        \A p \in Paths :
            scroll_paths(line_embeddings_shard, {p}) # {} =>
                Cardinality(scroll_paths(documents_shard, {p})) = 1

\* delete_documents(["b"]) has returned and removed the entries of "b"; "a"
\* keeps its two lines and its DocMeta although its file is gone
C6_Witness ==
    /\ pc = "ret" /\ run.op = "delete" /\ run.paths = <<"b">>
    /\ scroll_paths(run.lines0, {"b"}) # {}
    /\ scroll_paths(line_embeddings_shard, {"b"}) = {}
    /\ Cardinality(scroll_paths(line_embeddings_shard, {"a"})) = 2
    /\ ~files["a"].exists

\* the run repeats a completed run over the same list, no listed file
\* written or removed in between
UnchangedRerun ==
    /\ pc = "ret" /\ run.op = "search"
    /\ run.prev.op = "search" /\ run.prev.paths = run.paths

\* C7: an unchanged re-run calls neither upsert_line_embeddings nor
\* upsert_document_metadata and leaves both shards as they were
C7_NoWriteOnRerun ==
    UnchangedRerun =>
        /\ run.line_upserts = 0 /\ run.meta_upserts = 0
        /\ run.lines = <<>> /\ run.metas = <<>>
        /\ line_embeddings_shard = run.lines0
        /\ documents_shard = run.docs0
        /\ Cardinality(line_embeddings_shard) = Cardinality(run.lines0)
        /\ count_documents(documents_shard) = count_documents(run.docs0)

\* an unchanged re-run over both files, both indexed, has returned results
C7_Witness ==
    /\ UnchangedRerun /\ run.paths = <<"a", "b">>
    /\ files["a"].exists /\ files["b"].exists
    /\ Cardinality(line_embeddings_shard) >= 3
    /\ Cardinality(documents_shard) = 2
    /\ run.ranked # <<>>

\* the line entry the run stores for line i of the file p
current_line(p, i) ==
    line_point([path |-> p, line_number |-> i - 1,
                embedding |-> encode(files[p].content[i])])

\* C8: a run repeated after exactly one listed file was modified upserts line
\* entries and the DocMeta of that file and of no other, leaves the entries of
\* the other listed files as they were, and stores every current line of the
\* modified file so that a search filtered to the list can return it
C8_ReindexOnlyChanged ==
    (pc = "ret" /\ run.op = "search" /\ run.prev.op = "edit"
        /\ run.prev.paths = run.paths) =>
        \A p \in run.prev.pending :
            /\ run.line_upserts = 1 /\ run.meta_upserts = 1
            /\ \A i \in 1..Len(run.lines) : run.lines[i].path = p
            /\ \A i \in 1..Len(run.metas) : run.metas[i].path = p
            /\ meta_matches(documents_shard, files, p)
            /\ \A q \in Range(run.paths) \ {p} :
                   /\ scroll_paths(documents_shard, {q}) = scroll_paths(run.docs0, {q})
                   /\ scroll_paths(line_embeddings_shard, {q}) =
                          scroll_paths(run.lines0, {q})
            /\ \A i \in 1..Len(files[p].content) :
                   /\ current_line(p, i) \in line_embeddings_shard
                   /\ \E r \in Range(search_line_embeddings(line_embeddings_shard,
                                         encode(files[p].content[i]), run.paths,
                                         Cardinality(line_embeddings_shard), NoDistance)) :
                          r.path = p /\ r.line_number = i - 1

-----------------------------------------------------------------------------
(* Properties of the two rankings, checked under RankingSpec *)

\* a stateless search has returned its results
StatelessReturned ==
    /\ pc = "ret" /\ run.op \in {"search_files", "search_cmd"}
    /\ run.out.ok

\* search_line_embeddings has returned
WorkspaceReturned == pc = "ret" /\ run.op = "search_line_embeddings"

\* the query embedding the stateless search ranks with
stateless_query ==
    encode(IF run.op = "search_cmd" /\ run.config.ignore_case
           THEN to_lowercase(run.query) ELSE run.query)

\* the candidate lines of the stateless search: (document, line index from 0)
stateless_candidates ==
    {<<d, i - 1>> : d \in 1..Len(run.documents), i \in 1..MaxLines + 1} \cap
    UNION {{<<d, i - 1>> : i \in 1..Len(run.documents[d].embeddings)} :
              d \in 1..Len(run.documents)}

\* the distance of a stateless candidate, times two
stateless_distance(c) ==
    2 - cosine_score(stateless_query, run.documents[c[1]].embeddings[c[2] + 1])

\* the candidate lines of search_line_embeddings: the stored entries of the paths
workspace_candidates == scroll_paths(line_embeddings_shard, Range(run.paths))

\* C11: with max_distance set, both rankings return every candidate line whose
\* distance is below max_distance, whatever top_k is
C11_MaxDistanceOverridesTopK ==
    /\ (StatelessReturned /\ run.config.max_distance # NoDistance) =>
           \A c \in stateless_candidates :
               stateless_distance(c) < run.config.max_distance =>
                   \E r \in Range(run.out.results) :
                       /\ r.filename = run.documents[c[1]].filename
                       /\ r.match_line = c[2]
    /\ (WorkspaceReturned /\ run.max_distance # NoDistance) =>
           \A pt \in workspace_candidates :
               2 - cosine_score(run.query, pt.vector) < run.max_distance =>
                   \E r \in Range(run.ranked) :
                       /\ r.path = pt.payload.path
                       /\ r.line_number = pt.payload.line_number

\* C12: with max_distance unset both rankings return min(top_k, number of
\* candidate lines) results; with max_distance set every result is strictly
\* nearer than max_distance
C12_ResultBounds ==
    /\ StatelessReturned =>
           IF run.config.max_distance = NoDistance
           THEN Len(run.out.results) =
                    Min(run.config.top_k, Cardinality(stateless_candidates))
           ELSE \A r \in Range(run.out.results) : r.distance < run.config.max_distance
    /\ WorkspaceReturned =>
           IF run.max_distance = NoDistance
           THEN Len(run.ranked) = Min(run.top_k, Cardinality(workspace_candidates))
           ELSE \A r \in Range(run.ranked) : r.distance < run.max_distance

\* the distances of a ranking are in non-decreasing order
monotone(results) ==
    \A i \in 1..(Len(results) - 1) : results[i].distance <= results[i + 1].distance

\* C13: both rankings return their results in non-decreasing order of
\* distance, also when the path filter is split in several chunks
C13_RankingMonotone ==
    /\ StatelessReturned => monotone(run.out.results)
    /\ WorkspaceReturned => monotone(run.ranked)

\* the merge of two chunks put a line of the second chunk, "b", before a
\* farther line of the first, "a"
C13_Witness ==
    /\ WorkspaceReturned /\ run.paths = <<"a", "b">>
    /\ Len(chunks(run.paths, ChunkSize)) = 2
    /\ Len(run.ranked) >= 2
    /\ run.ranked[1].path = "b" /\ run.ranked[2].path = "a"
    /\ run.ranked[1].distance < run.ranked[2].distance

\* the paths of the list are pairwise distinct
distinct_paths(paths) == Cardinality(Range(paths)) = Len(paths)

\* C14: for distinct paths, top_k >= 1 and max_distance unset, the distances
\* search_line_embeddings returns are those of one unchunked query for the
\* top_k nearest entries of the paths
C14_ChunkedEqualsGlobal ==
    (WorkspaceReturned /\ run.max_distance = NoDistance /\ run.top_k >= 1
        /\ distinct_paths(run.paths)) =>
        LET global == query_nearest(line_embeddings_shard, run.query,
                                    Range(run.paths), NoDistance, run.top_k)
        IN  [i \in 1..Len(run.ranked) |-> run.ranked[i].distance] =
                [i \in 1..Len(global) |-> 2 - global[i].score]

-----------------------------------------------------------------------------
(* Properties of the Store's writes, checked under StoreSpec *)

\* no two entries of the line shard have the same (path, line_number)
unique_lines(lines) ==
    \A x, y \in lines :
        (x.payload.path = y.payload.path /\ x.payload.line_number = y.payload.line_number)
            => x = y

\* the (path, line_number) pairs of a list of LineEmbedding
keys_of(line_embeddings) ==
    {<<line_embeddings[i].path, line_embeddings[i].line_number>> :
        i \in 1..Len(line_embeddings)}

\* the entries of a line shard whose (path, line_number) is not in keys
other_lines(lines, keys) ==
    {pt \in lines : <<pt.payload.path, pt.payload.line_number>> \notin keys}

\* C15: on every store reached, upsert_line_embeddings(xs) twice gives the
\* shard it gives once; the entry of each (path, line_number) of xs is the one
\* of xs and the only one, the other entries stay; upsert_document_metadata
\* leaves exactly one entry per path of its list, carrying the new size and
\* mtime; no shard ever holds two entries for one key
C15_UpsertReplaces ==
    /\ unique_lines(line_embeddings_shard)
    /\ \A p \in Paths : Cardinality(scroll_paths(documents_shard, {p})) <= 1
    /\ \A xs \in LineLists :
           LET once == upsert_line_embeddings(line_embeddings_shard, xs)
           IN  /\ upsert_line_embeddings(once, xs) = once
               /\ \A i \in 1..Len(xs) : line_point(xs[i]) \in once
               /\ unique_lines(once)
               /\ other_lines(once, keys_of(xs)) =
                      other_lines(line_embeddings_shard, keys_of(xs))
    /\ \A ms \in MetaLists :
           LET after == upsert_document_metadata(documents_shard, ms)
           IN  \A i \in 1..Len(ms) :
                   /\ scroll_paths(after, {ms[i].path}) = {doc_point(ms[i])}
                   /\ \A pt \in scroll_paths(after, {ms[i].path}) :
                          /\ pt.payload.size_bytes = ms[i].size_bytes
                          /\ pt.payload.mtime = ms[i].mtime

\* the last call replaced line 0 of "a" by an entry with another embedding,
\* next to line 1 of "a", and the DocMeta of "a" was replaced before
C15_Witness ==
    /\ pc = "idle" /\ last.op = "replaced" /\ last.at = "line_embeddings"
    /\ line_point(OtherLine) \in line_embeddings_shard
    /\ stored_line_numbers(line_embeddings_shard, "a") = {0, 1}
    /\ \E pt \in documents_shard : pt.payload.path = "a" /\ pt.payload.mtime = 200

-----------------------------------------------------------------------------
(* Durability *)

\* what a Store opened on the root would hold
opened == [documents |-> EdgeShard_load(disk.documents),
           line_embeddings |-> EdgeShard_load(disk.line_embeddings)]

\* what the running process holds
in_memory == [documents |-> documents_shard,
              line_embeddings |-> line_embeddings_shard]

\* a returned write has its entries on disk and in memory; what a returned
\* delete removed is not on disk; opening changes nothing
durable_step ==
    /\ \A metas \in MetaLists :
           StoreUpsertDocumentMetadata(metas) =>
               \A i \in 1..Len(metas) :
                   /\ doc_point(metas[i]) \in opened'.documents
                   /\ doc_point(metas[i]) \in documents_shard'
    /\ \A line_embeddings \in LineLists :
           StoreUpsertLineEmbeddings(line_embeddings) =>
               \A i \in 1..Len(line_embeddings) :
                   /\ line_point(line_embeddings[i]) \in opened'.line_embeddings
                   /\ line_point(line_embeddings[i]) \in line_embeddings_shard'
    /\ DeleteLines =>
           /\ opened'.documents = delete_document_metadata(run.docs0, run.paths)
           /\ opened'.line_embeddings = delete_line_embeddings(run.lines0, run.paths)
           /\ scroll_paths(opened'.line_embeddings, Range(run.paths)) = {}
    /\ StoreOpen => (in_memory' = in_memory /\ disk' = disk)

\* C16: once upsert_line_embeddings, upsert_document_metadata or
\* delete_documents has returned, every upserted entry is on disk and in
\* memory and nothing the delete removed is left on disk, so a stop followed by
\* Store::open gives the shards the process held; Store::open changes no entry
C16_Durability ==
    /\ [](pc \in {"idle", "ret"} => opened = in_memory)
    /\ [][durable_step]_vars

\* a Store holding a metadata entry and two lines is opened again
C16_Witness ==
    /\ pc = "idle"
    /\ last.op = "open"
    /\ documents_shard # {}
    /\ Cardinality(line_embeddings_shard) = 2
    /\ opened = in_memory

-----------------------------------------------------------------------------
(* Prune *)

PruneReturned == pc = "ret" /\ run.op = "prune"

\* C17: when workspace prune returns, every path of get_all_document_paths is
\* on the filesystem, whatever version its DocMeta has; a prune that follows a
\* prune with no filesystem change in between removes nothing, reports
\* files_removed = 0 and leaves both shards as they were
C17_PruneIdempotent ==
    /\ PruneReturned =>
           \A p \in get_all_document_paths(documents_shard) : files[p].exists
    /\ (PruneReturned /\ last.op = "prune") =>
           /\ run.files_removed = 0
           /\ documents_shard = run.docs0
           /\ line_embeddings_shard = run.lines0

-----------------------------------------------------------------------------
(* The context window *)

\* the document of the run a result was taken from
document_of(r) ==
    run.documents[CHOOSE d \in 1..Len(run.documents) :
                      run.documents[d].filename = r.filename]

\* C18: every result of search_documents, for line i of a document of L lines,
\* has match_line = i, start = max(0, i - n_lines),
\* end = min(L, i + n_lines + 1), start <= match_line < end <= L and
\* lines = the document's lines[start..end]
C18_ContextWindow ==
    StatelessReturned =>
        \A k \in 1..Len(run.out.results) :
            LET r == run.out.results[k]
                doc == document_of(r)
                L == Len(doc.lines)
                i == r.match_line
                n_lines == run.config.n_lines
            IN  /\ i \in 0..(L - 1)
                /\ r.distance = 2 - cosine_score(stateless_query, doc.embeddings[i + 1])
                /\ r.start = (IF i - n_lines > 0 THEN i - n_lines ELSE 0)
                /\ r.end = Min(L, i + n_lines + 1)
                /\ r.start <= r.match_line
                /\ r.match_line < r.end
                /\ r.end <= L
                /\ r.lines = SubSeq(doc.lines, r.start + 1, r.end)

-----------------------------------------------------------------------------
(* Document construction *)

DocumentReturned == pc = "ret" /\ run.op = "create_document"

\* the line-separated records of a content: one per line feed, one more for
\* the bytes after the last line feed
records_of(c) ==
    Cardinality({i \in 1..Len(c) : c[i] = "\n"}) +
    (IF c # <<>> /\ c[Len(c)] # "\n" THEN 1 ELSE 0)

\* the lines joined again, each followed by a line feed
RECURSIVE join_lines(_)
join_lines(lines) ==
    IF lines = <<>> THEN <<>>
    ELSE Head(lines) \o <<"\n">> \o join_lines(Tail(lines))

\* C19: create_document_from_content gives no Document or a Document with
\* |lines| = |embeddings| = the number of records of c, the lines in file
\* order; it gives no Document for the empty content and for a content made
\* of line feeds only
C19_DocumentConstruction ==
    DocumentReturned =>
        LET c == run.content
            doc == run.out
        IN  /\ doc # NoDocument =>
                   /\ Len(doc.lines) = records_of(c)
                   /\ Len(doc.embeddings) = records_of(c)
                   /\ join_lines(doc.lines) \in {c, c \o <<"\n">>}
            /\ c = <<>> => doc = NoDocument
            /\ (\A i \in 1..Len(c) : c[i] = "\n") => doc = NoDocument

-----------------------------------------------------------------------------
(* ignore_case *)

\* the files with every line in lower case
lowercased(fs) ==
    [p \in DOMAIN fs |->
        IF fs[p].exists
        THEN [fs[p] EXCEPT !.content = [i \in 1..Len(@) |-> to_lowercase(@[i])]]
        ELSE fs[p]]

\* what a ranking is compared on
ranking(results) ==
    [k \in 1..Len(results) |->
        <<results[k].filename, results[k].match_line,
          results[k].start, results[k].end>>]

\* the case-sensitive search of the lowercased query over the lowercased files
lowercased_search ==
    search_files(lowercased(files), run.paths, to_lowercase(run.query),
                 [run.config EXCEPT !.ignore_case = FALSE])

\* the returned results rank as the lowercased search does and carry the
\* text of the files as it is
same_as_lowercased ==
    /\ ranking(run.out.results) = ranking(lowercased_search.results)
    /\ \A k \in 1..Len(run.out.results) :
           LET r == run.out.results[k]
           IN  r.lines = SubSeq(files[r.filename].content, r.start + 1, r.end)

-----------------------------------------------------------------------------
(* Missing and unreadable files *)

\* the listed paths that are on disk and cannot be read as text
unreadable(paths) ==
    SelectSeq(paths, LAMBDA p : files[p].exists /\ files[p].content = InvalidUtf8)

\* C21: analyze_document_states gives one state for each listed path that is
\* on disk, in the order of the list, and none for a listed path that is not;
\* it fails only on a file that is on disk, never on a missing path
C21_MissingFilesDropped ==
    (pc = "ret" /\ run.op = "analyze") =>
        /\ unreadable(run.paths) = <<>> => run.error = NoError
        /\ run.error = NoError =>
               [i \in 1..Len(run.states) |-> run.states[i].path] =
                   SelectSeq(run.paths, LAMBDA p : files[p].exists)
        /\ run.error # NoError => unreadable(run.paths) # <<>>

\* "a" is missing and "b" is on disk: the call returns the state of "b" alone
C21_Witness ==
    /\ pc = "ret" /\ run.op = "analyze" /\ run.paths = <<"a", "b">>
    /\ ~files["a"].exists /\ files["b"].exists
    /\ run.error = NoError
    /\ Len(run.states) = 1 /\ run.states[1].path = "b"

\* the listed paths read_to_string fails on
failing_reads(paths) == SelectSeq(paths, LAMBDA p : ~read_to_string(files, p).ok)

\* C22: when a listed file cannot be read, search_files returns one error,
\* which names the first such path, and no result
C22_ErrorNamesPath ==
    (pc = "ret" /\ run.op = "search_files" /\ failing_reads(run.paths) # <<>>) =>
        /\ ~run.out.ok
        /\ run.out.results = <<>>
        /\ Head(failing_reads(run.paths)) \in Range(run.out.error)

\* the state analyze_document_states gives a listed path at the start of the run
state_at_start(p) ==
    document_state(get_existing_docs(run.docs0, run.paths), files, p)

\* the store is as it was when the run started
store_untouched ==
    /\ documents_shard = run.docs0
    /\ line_embeddings_shard = run.lines0
    /\ run.line_upserts = 0 /\ run.meta_upserts = 0

\* C28 as stated: a listed file that is on disk and cannot be read makes
\* search_with_workspace fail and leave the store as it was
C28_AnyUnreadableFails ==
    (pc = "ret" /\ run.op = "search" /\ unreadable(run.paths) # <<>>) =>
        (run.error # NoError /\ store_untouched)

\* C28: a listed file that is on disk, is New or Changed by its size, mtime
\* and version, and cannot be read makes search_with_workspace fail; a failed
\* search_with_workspace leaves the store as it was
C28_NoPartialIndex ==
    (run.op = "search" /\ pc \in {"ret", "ws_lines", "ws_metas", "ws_search"}) =>
        /\ (\E i \in 1..Len(unreadable(run.paths)) :
                state_at_start(unreadable(run.paths)[i]).kind # "Unchanged") =>
               (pc = "ret" /\ run.error # NoError)
        /\ run.error # NoError => store_untouched

\* "a" is new and readable, "b" cannot be read: the call failed and nothing of
\* "a" is stored
C28_Witness ==
    /\ pc = "ret" /\ run.op = "search" /\ run.paths = <<"a", "b">>
    /\ run.error # NoError
    /\ files["a"].exists /\ files["a"].content = <<"cat", "Dog">>
    /\ unreadable(run.paths) = <<"b">>
    /\ scroll_paths(documents_shard, {"a"}) = {}
    /\ scroll_paths(line_embeddings_shard, {"a"}) = {}

-----------------------------------------------------------------------------
(* The active workspace and its configuration *)

\* C23: with SEMTOOLS_WORKSPACE unset or empty, Workspace::active and
\* Workspace::active_path fail, a search over files is the stateless one, and
\* no step writes to a shard or to the workspace root
C23_NoWorkspaceIsStateless ==
    /\ [](env = "" => (/\ ~active(env).ok /\ ~active_path(env).ok
                       /\ pc # "idle" => run.op = "search_cmd"))
    /\ [][env = "" => /\ documents_shard' = documents_shard
                      /\ line_embeddings_shard' = line_embeddings_shard
                      /\ disk' = disk
                      /\ config_json' = config_json]_vars

\* with the variable unset, a search over a file that is on disk returned
\* results while the store, filled before, is as it was
C23_Witness ==
    /\ env = "" /\ pc = "ret" /\ run.op = "search_cmd"
    /\ run.out.ok /\ run.out.results # <<>>
    /\ documents_shard # {}
    /\ scroll_paths(documents_shard, Range(run.paths)) = {}

OpenReturned == pc = "ret" /\ run.op = "open" /\ env # ""

\* C24: with config.json of the active workspace absent, unreadable or not
\* parseable, Workspace::open returns the active name, its root path and the
\* default tunables, and config.json is as it was
C24_MalformedIsMissing ==
    (OpenReturned /\ run.config_json0[env] \in MalformedFiles) =>
        /\ run.out.ok
        /\ run.out.config = [name |-> env, root_dir |-> root_path(env),
                             doc_top_k |-> 250, in_batch_size |-> 5000,
                             oversample_factor |-> 3]
        /\ config_json = run.config_json0

\* the config.json of "ws" lacks a member: open returned the defaults
C24_Witness ==
    /\ OpenReturned /\ env = "ws"
    /\ config_json["ws"].exists
    /\ config_json["ws"].content = without_oversample_factor
    /\ run.out.config.name = "ws" /\ run.out.config.oversample_factor = 3

\* the configs whose save left the config.json the active workspace has
saved_as_active ==
    {c \in WorkspaceConfigs : c.name = env /\ config_json[env] = saved_file(c)}

\* C25 as stated: open returns the saved config, equal in every field
C25_RoundTripEveryField ==
    /\ (pc = "ret" /\ run.op = "save") =>
           config_json[run.config.name] = saved_file(run.config)
    /\ OpenReturned => \A c \in saved_as_active : run.out.config = c

\* C25: open returns the saved config, except that an empty root_dir comes
\* back as the root path of the active workspace
C25_RoundTrip ==
    /\ (pc = "ret" /\ run.op = "save") =>
           config_json[run.config.name] = saved_file(run.config)
    /\ OpenReturned =>
           \A c \in saved_as_active :
               /\ run.out.ok
               /\ run.out.config =
                      [c EXCEPT !.root_dir = IF @ = <<>> THEN root_path(env) ELSE @]

\* save of a config of "ws" with its own tunables, then open
C25_Witness ==
    /\ OpenReturned /\ env = "ws" /\ last.op = "save"
    /\ saved_as_active # {}
    /\ run.out.config.doc_top_k = 123 /\ run.out.config.oversample_factor = 7
    /\ run.out.config.root_dir = <<"tmp", "test">>

-----------------------------------------------------------------------------
(* Ties *)

\* the index of the document of a file in the order search_documents got them
produced_document(filename) ==
    CHOOSE d \in 1..Len(run.documents) : run.documents[d].filename = filename

\* candidate (d1, i1) is pushed before candidate (d2, i2)
produced_before(d1, i1, d2, i2) == d1 < d2 \/ (d1 = d2 /\ i1 < i2)

\* C26: two results of search_documents with equal distance are in the order
\* they were produced, documents in the caller's order and lines ascending;
\* a candidate cut by top_k was produced after every returned one it ties with
C26_StableTies ==
    StatelessReturned =>
        LET results == run.out.results
        IN  /\ \A j, k \in 1..Len(results) :
                   (j < k /\ results[j].distance = results[k].distance) =>
                       produced_before(produced_document(results[j].filename),
                                       results[j].match_line,
                                       produced_document(results[k].filename),
                                       results[k].match_line)
            /\ run.config.max_distance = NoDistance =>
                   \A c \in stateless_candidates :
                       \A j \in 1..Len(results) :
                           (/\ stateless_distance(c) = results[j].distance
                            /\ \A k \in 1..Len(results) :
                                   <<produced_document(results[k].filename),
                                     results[k].match_line>> # c) =>
                               produced_before(
                                   produced_document(results[j].filename),
                                   results[j].match_line, c[1], c[2])

\* "a" and "b" hold one line each, at the same distance from the query, and
\* top_k = 1: the line of "a", listed first, is the one returned
C26_Witness ==
    /\ StatelessReturned /\ run.paths = <<"a", "b">>
    /\ run.config.top_k = 1 /\ run.config.max_distance = NoDistance
    /\ Len(run.documents) = 2
    /\ stateless_distance(<<1, 0>>) = stateless_distance(<<2, 0>>)
    /\ Len(run.out.results) = 1
    /\ run.out.results[1].filename = "a"

-----------------------------------------------------------------------------
(* The window of a workspace result *)

\* C27: for every RankedLine resolved against its file of L lines, the
\* reported window is start = max(0, i - n_lines), end = min(L, i + n_lines + 1)
\* and the slice taken has start <= end <= L; the step never indexes outside
\* the file, also when the file is shorter than when it was indexed
C27_WindowInsideFile ==
    /\ ~(last.op = "panic" /\ last.at = "print_workspace_search_results")
    /\ (pc = "ret" /\ run.op = "print") =>
           \A k \in 1..Len(run.windows) :
               LET w == run.windows[k]
                   i == w.match_line
                   L == w.file_lines
               IN  w.read =>
                       /\ w.start = (IF i > run.n_lines THEN i - run.n_lines ELSE 0)
                       /\ w.end = Min(L, i + run.n_lines + 1)
                       /\ w.actual_start <= w.actual_end
                       /\ w.actual_end <= L

-----------------------------------------------------------------------------
(* The counts of a prune *)

\* C29: the reported files_removed is the number of stored paths that are
\* not on disk, files_removed + files_remaining is the number of stored paths
\* before the prune, and after the prune count_documents() equals the
\* reported files_remaining
C29_PruneCountsExact ==
    PruneReturned =>
        /\ run.files_removed =
               Cardinality({pt \in run.docs0 : ~files[pt.payload.path].exists})
        /\ run.files_removed + run.files_remaining = Cardinality(run.docs0)
        /\ count_documents(documents_shard) = run.files_remaining

-----------------------------------------------------------------------------
(* Write batching *)

\* the shard an upsert writes, in memory and as flushed
written_shard ==
    IF run.shard = "documents" THEN <<documents_shard, disk.documents>>
    ELSE <<line_embeddings_shard, disk.line_embeddings>>

\* C30: upsert_line_embeddings and upsert_document_metadata split their input
\* into consecutive chunks of at most ChunkSize entries, issue one engine
\* update per chunk followed by a flush, and the chunks together are the
\* input, every entry once and in input order; an empty input issues no
\* update and no flush
C30_WriteBatching ==
    /\ (run.op = "upsert") =>
           /\ run.flushes = Len(run.updates)
           /\ \A k \in 1..Len(run.updates) :
                  /\ Len(run.updates[k]) \in 1..ChunkSize
                  /\ k < Len(run.updates) => Len(run.updates[k]) = ChunkSize
           /\ Flatten(run.updates, 1) =
                  SubSeq(run.input, 1, Len(Flatten(run.updates, 1)))
           /\ run.updates # <<>> => written_shard[1] = written_shard[2]
    /\ (pc = "ret" /\ run.op = "upsert") =>
           /\ Flatten(run.updates, 1) = run.input
           /\ run.input = <<>> => (run.updates = <<>> /\ run.flushes = 0)

C30_Witness ==
    /\ pc = "ret" /\ run.op = "upsert"
    /\ Len(run.input) > ChunkSize
    /\ Len(run.updates) > 1
    /\ run.flushes = Len(run.updates)

-----------------------------------------------------------------------------
(* The store against the files after a run *)

\* a search_with_workspace call has run to its end without error
SearchCompleted == pc = "ret" /\ run.op = "search" /\ run.error = NoError

\* C31: after search_with_workspace completes for a list that contains path
\* p, whose file exists and has n lines, the line_embeddings shard holds for p
\* exactly the line numbers 0..n-1, whatever length was indexed before
C31_NoStaleLines ==
    SearchCompleted =>
        \A p \in Range(run.paths) :
            files[p].exists =>
                stored_line_numbers(line_embeddings_shard, p) =
                    0..(Len(files[p].content) - 1)

\* C32: every RankedLine returned by search_with_workspace names a path that
\* exists on disk and a line_number from 0 to below the current number of
\* lines of that file, for any history of runs, edits and deletions
C32_ResultsPointAtLines ==
    SearchCompleted =>
        \A k \in 1..Len(run.ranked) :
            /\ files[run.ranked[k].path].exists
            /\ run.ranked[k].line_number \in
                   0..(Len(files[run.ranked[k].path].content) - 1)

-----------------------------------------------------------------------------
(* Workspace mode beside stateless mode *)

\* a search_with_workspace call whose query and config are known has returned
AgreeReturned == pc = "ret" /\ run.op = "search" /\ "query" \in DOMAIN run

\* the distances of a sequence of lines are pairwise distinct
distinct_distances(rs) ==
    \A i, j \in 1..Len(rs) : i # j => rs[i].distance # rs[j].distance

\* every line of the listed files as search_files ranks it, none cut
all_file_lines ==
    search_files(files, run.paths, run.query,
                 [run.config EXCEPT !.top_k = usize_MAX]).results

\* every stored line of the listed paths as search_line_embeddings ranks it
all_stored_lines ==
    search_line_embeddings(line_embeddings_shard, encode(run.query), run.paths,
                           Cardinality(line_embeddings_shard), NoDistance)

\* C33: for any history of workspace runs and file edits, when all listed
\* files exist, max_distance is unset and line distances are pairwise
\* distinct, search_with_workspace returns the same sequence of
\* (path, line_number) as search_files computes (filename, match_line)
C33_WorkspaceAgreesWithStateless ==
    (/\ AgreeReturned
     /\ \A p \in Range(run.paths) : files[p].exists
     /\ distinct_distances(all_file_lines)
     /\ distinct_distances(all_stored_lines)) =>
        LET stateless == search_files(files, run.paths, run.query, run.config).results
        IN  [k \in 1..Len(run.ranked) |->
                <<run.ranked[k].path, run.ranked[k].line_number>>] =
            [k \in 1..Len(stateless) |->
                <<stateless[k].filename, stateless[k].match_line>>]

-----------------------------------------------------------------------------
(* Reconciliation *)

\* C34: after one completed search_with_workspace over a list, with no
\* filesystem change afterwards, analyze_document_states on the same list
\* classifies every listed path that exists on disk as Unchanged, whatever
\* the content of the file, a file with zero lines included
C34_ReconciliationConverges ==
    (UnchangedRerun /\ run.error = NoError) =>
        \A i \in 1..Len(run.states) : run.states[i].kind = "Unchanged"

-----------------------------------------------------------------------------
(* A file written during a run *)

\* a run over a file written by another process has returned
RaceReturned == pc = "ret" /\ run.op = "search" /\ "seen" \in DOMAIN run

\* the shard held, when the file was classified, the embeddings of the lines
\* the file had at that moment
indexed_as_seen ==
    \A i \in 1..Len(run.seen.content) :
        line_point([path |-> "a", line_number |-> i - 1,
                    embedding |-> encode(run.seen.content[i])]) \in run.lines0

\* C35: when another process modifies the listed file during a run so that
\* its size or mtime changes, a later run indexes the file again: no run
\* classifies the file Unchanged while the store holds embeddings of content
\* older than the file
C35_EditDuringRunReindexed ==
    (RaceReturned /\ run.states # <<>> /\ run.states[1].kind = "Unchanged") =>
        indexed_as_seen

-----------------------------------------------------------------------------
(* A path listed twice *)

\* C36: in the sequence returned by search_line_embeddings each
\* (path, line_number) pair occurs at most once, for any subset_paths, a list
\* that names the same path in two filter chunks included
C36_NoDuplicateResults ==
    WorkspaceReturned =>
        \A i, j \in 1..Len(run.ranked) :
            (/\ run.ranked[i].path = run.ranked[j].path
             /\ run.ranked[i].line_number = run.ranked[j].line_number) => i = j

-----------------------------------------------------------------------------
(* The retries of the parse client *)

\* a retry loop is running or has returned
Retrying ==
    run.op \in {"create_parse_job_with_retry", "poll_for_result_with_retry"}

\* all attempts but the last ended with an HTTP error judged retryable
retried_only_retryable ==
    \A k \in 1..(Len(run.outcomes) - 1) :
        run.outcomes[k].kind = "HttpError" /\ is_retryable(run.outcomes[k].err)

\* what the call returned, from its last attempt
returned_as_claimed ==
    LET n == Len(run.outcomes)
        final == run.outcomes[n]
    IN  /\ n >= 1
        /\ final.kind # "HttpError" => run.result = final.kind
        /\ (final.kind = "HttpError" /\ n = run.max_retries + 1) =>
               run.result = "RetryExhausted"
        /\ (final.kind = "HttpError" /\ n < run.max_retries + 1) =>
               (run.result = "HttpError" /\ ~is_retryable(final.err))

\* C37: both retry functions make at most max_retries + 1 attempts, try
\* again only after an HTTP error judged retryable, return any other error at
\* once, return RetryExhausted when attempt max_retries + 1 fails with an
\* HTTP error, and terminate for every sequence of attempt outcomes
C37_BoundedRetry ==
    /\ [](Retrying =>
            /\ Len(run.outcomes) <= run.max_retries + 1
            /\ run.attempt <= run.max_retries
            /\ retried_only_retryable
            /\ pc = "attempt" => Len(run.outcomes) = run.attempt
            /\ pc = "ret" => returned_as_claimed)
    /\ (pc = "attempt") ~> (pc # "attempt")

C37_Witness ==
    /\ pc = "ret" /\ run.op = "poll_for_result_with_retry"
    /\ run.max_retries = MaxRetries
    /\ Len(run.outcomes) = MaxRetries + 1
    /\ run.result = "RetryExhausted"

-----------------------------------------------------------------------------
(* The tasks of a parse call *)

\* C38: during parse at most num_ongoing_requests files are inside
\* process_single_document at the same time in every interleaving; parse
\* returns only after every spawned task has finished; and it eventually
\* returns once every remote job reaches a terminal outcome, for every
\* configured value of num_ongoing_requests
C38_BoundedParseConcurrency ==
    /\ [](run.op = "parse" =>
            /\ Cardinality(inside(run.tasks)) <= run.num_ongoing_requests
            /\ pc = "ret" => \A i \in DOMAIN run.tasks : ended(run.tasks[i]))
    /\ (pc = "parse_join") ~> (pc = "ret")

-----------------------------------------------------------------------------
(* DocMeta::id and LineEmbedding::id on paths of any length *)

\* the characters of a path: NUL, 'a' and 'e' with an acute accent
PathChars == {0, 97, 233}

\* a String is the sequence of its characters
PathStrings ==
    UNION {[1..n -> PathChars] : n \in 0..MaxPathChars}

\* line_number is an i32: the claim is about every value of the type
LineNumbers == {-1, 0, 256}

\* the UTF-8 encoding of a character below U+0800
encode_utf8(c) ==
    IF c < 128 THEN <<c>> ELSE <<192 + (c \div 64), 128 + (c % 64)>>

\* String::as_bytes: the encodings of the characters, one after the other
RECURSIVE String_as_bytes(_)
String_as_bytes(string) ==
    IF string = <<>> THEN <<>>
    ELSE encode_utf8(Head(string)) \o String_as_bytes(Tail(string))

\* what a DocMeta and a LineEmbedding carry besides path and line number
IdRests == {[size_bytes |-> 4, mtime |-> 100, version |-> 1, embedding |-> 0],
            [size_bytes |-> 8, mtime |-> 200, version |-> CURRENT_EMBEDDING_VERSION,
             embedding |-> 1]}

\* DocMeta::id of a DocMeta whose path is a String
DocMeta_id_of(meta) == fnv1a_hash(String_as_bytes(meta.path))

\* LineEmbedding::id of a LineEmbedding whose path is a String
LineEmbedding_id_of(le) ==
    fnv1a_hash(LineEmbedding_id_bytes(String_as_bytes(le.path), le.line_number))

\* the ids of the DocMeta and the LineEmbedding of one line
ids_of(path, line_number, rest) ==
    LET meta == [path |-> path, size_bytes |-> rest.size_bytes,
                 mtime |-> rest.mtime, version |-> rest.version]
        le == [path |-> path, line_number |-> line_number,
               embedding |-> rest.embedding]
    IN  [path |-> path, line_number |-> line_number, rest |-> rest,
         doc_bytes |-> String_as_bytes(path),
         doc_id |-> DocMeta_id_of(meta),
         line_bytes |-> LineEmbedding_id_bytes(String_as_bytes(path), line_number),
         line_id |-> LineEmbedding_id_of(le)]

\* the ids of two lines are computed
IdStart(x_path, x_line_number, y_path, y_line_number, y_rest) ==
    /\ pc = "idle"
    /\ run' = [op |-> "id",
               x |-> ids_of(x_path, x_line_number,
                            [size_bytes |-> 4, mtime |-> 100, version |-> 1,
                             embedding |-> 0]),
               y |-> ids_of(y_path, y_line_number, y_rest)]
    /\ pc' = "ret"
    /\ UNCHANGED <<files, documents_shard, line_embeddings_shard,
                   last, orphans, disk, env, config_json>>

IdNext ==
    \/ \E x_path \in PathStrings, y_path \in PathStrings,
          x_line_number \in LineNumbers, y_line_number \in LineNumbers,
          y_rest \in IdRests :
            IdStart(x_path, x_line_number, y_path, y_line_number, y_rest)
    \/ Return

IdSpec == Init /\ [][IdNext]_vars

IdsComputed == pc = "ret" /\ run.op = "id"

=============================================================================
